---- MODULE Spec2Model ----
(***************************************************************************)
(* A model of bunny's packaging planner (package hops): ToPack and the     *)
(* helpers it calls, as written in hops/package.go, with the framework     *)
(* variants it instantiates, the file parsers and validators in front of   *)
(* it and PackLLB behind it.                                               *)
(*                                                                         *)
(* Five kinds of run:                                                      *)
(*   - ToPack on a request (Hops): lines 157-257 from the top;             *)
(*   - the base/copy block of ToPack (lines 203-256) on two resolved       *)
(*     entries, the way the package's unit tests drive the planner with    *)
(*     hand-built PackEntry values;                                        *)
(*   - handleRootfs (lines 99-146) on a rootfs and a framework;            *)
(*   - one method of a framework variant (generic, unikraft, rumprun,      *)
(*     mirage) on one argument;                                            *)
(*   - one function of the package on its arguments: FilesLLB, the         *)
(*     include decoder, ValidateRootfs, PackLLB, ParseContainerfile, and   *)
(*     ParseFile, which goes on into ToPack for an accepted bunnyfile.     *)
(***************************************************************************)
EXTENDS Integers, Sequences, FiniteSets, TLC

VARIABLES pc, h, framework, kernelEntry, rootfsEntry, instr,
          kernelCopy, rootfsCopy, err, calls, q, ret

vars == <<pc, h, framework, kernelEntry, rootfsEntry, instr,
          kernelCopy, rootfsCopy, err, calls, q, ret>>

---------------------------------------------------------------------------
(* Bounds of the model *)

\* number of distinct remote image references
MaxRefs == 2
\* longest include list of a request
MaxIncludes == 1
\* longest include entry, in characters
MaxEntryLen == 5
\* longest file list handed to the copy chain
MaxFiles == 2
\* most instructions of a Containerfile
MaxInstrs == 3
\* most lines of a file handed to ParseFile
MaxLines == 3

---------------------------------------------------------------------------
(* Program constants *)

DefaultKernelPath == "/.boot/kernel"
DefaultRootfsPath == "/.boot/rootfs"
unikraftName == "unikraft"
genericName == "generic"
rumprunName == "rumprun"
mirageName == "mirage"

AnnotMountRootfs == "com.urunc.unikernel.mountRootfs"
AnnotUnikernelType == "com.urunc.unikernel.unikernelType"
AnnotCmdline == "com.urunc.unikernel.cmdline"
AnnotHypervisor == "com.urunc.unikernel.hypervisor"
AnnotVersion == "com.urunc.unikernel.unikernelVersion"
AnnotBinary == "com.urunc.unikernel.binary"
AnnotInitrd == "com.urunc.unikernel.initrd"
AnnotBlock == "com.urunc.unikernel.block"
AnnotBlkMntPoint == "com.urunc.unikernel.blkMntPoint"

ErrKernelEmpty == "Source of kernel State is empty"
ErrUnexpectedRootfsType == "Unexpected RootfsType value"

---------------------------------------------------------------------------
(* llb.State handles: the operation that produced the state and its        *)
(* argument.  The zero value of llb.State and llb.Scratch() both marshal   *)
(* to an empty definition; they are kept apart so that "set to scratch"    *)
(* and "never set" can be told from each other.                            *)

ZeroState == [op |-> "zero", arg |-> ""]
Scratch == [op |-> "scratch", arg |-> ""]
Local(buildContext) == [op |-> "local", arg |-> buildContext]
Image(ref) == [op |-> "image", arg |-> ref]
\* what a framework's CreateRootfs returns for an effective rootfs type
Created(rootfsType) == [op |-> "created", arg |-> rootfsType]

\* an image with the files of an include list copied into it
Updated(ref) == [op |-> "updated", arg |-> ref]

IsEmptyImage(s) == s.op \in {"zero", "scratch"}

\* FilesLLB: every file of the list is copied into toState; an empty list
\* leaves toState as it is
FilesLLB(fileList, fromState, toState) ==
    IF fileList = <<>>
    THEN toState
    ELSE IF toState = Scratch
         THEN Created("raw")
         ELSE Updated(toState.arg)

\* InitrdLLB: a cpio archive of the content at /.boot/rootfs
InitrdLLB(content) == Created("initrd")

BuildContext == "context"

---------------------------------------------------------------------------
(* Inputs *)

RefName(i) == "registry/img" \o ToString(i)
Refs == {RefName(i) : i \in 1..MaxRefs}

KernelFroms == {"", "local"} \cup Refs
KernelPaths == {"", "kernel", DefaultKernelPath}
RootfsFroms == {"", "scratch", "local"} \cup Refs
RootfsPaths == {"", "rootfs", DefaultRootfsPath}
RootfsTypes == {"", "initrd", "raw", "block", "foo"}
IncludeLists == UNION {[1..n -> {"a:b"}] : n \in 0..MaxIncludes}
FrameworkNames == {unikraftName, genericName, rumprunName, mirageName, "linux"}
Versions == {"", "0.17"}

Platforms == [Framework : FrameworkNames, Version : Versions, Monitor : {"qemu"}]
Kernels == [From : KernelFroms, Path : KernelPaths]
Rootfses == [From : RootfsFroms, Path : RootfsPaths, Type : RootfsTypes,
             Includes : IncludeLists]
Requests == [Platform : Platforms, Rootfs : Rootfses, Kernel : Kernels,
             Cmd : {"cmd"}]

\* the entry-driven runs carry no request
NoRequest == [Platform |-> [Framework |-> "", Version |-> "", Monitor |-> ""],
              Rootfs |-> [From |-> "", Path |-> "", Type |-> "", Includes |-> <<>>],
              Kernel |-> [From |-> "", Path |-> ""],
              Cmd |-> "<none>"]

\* the requests handleRootfs is driven with: only the platform and the
\* rootfs are read
RootfsRequests ==
    [Platform : Platforms, Rootfs : Rootfses,
     Kernel : {[From |-> "", Path |-> ""]}, Cmd : {"cmd"}]

\* method calls on a framework and their results
MethodArgs == RootfsTypes \cup {"qemu", "firecracker", "hvt", "amd64", "x86_64", "aarch64", "riscv"}
MethodCalls ==
    [fn : {"SupportsRootfsType", "SupportsMonitor", "SupportsArch"}, arg : MethodArgs]
    \cup [fn : {"CreateRootfs", "UpdateRootfs"}, arg : {BuildContext}]
MethodPlatforms == {plat \in Platforms : plat.Framework = genericName}
NoCall == [fn |-> "", arg |-> ""]
NoRet == [ok |-> FALSE, state |-> ZeroState, err |-> "<none>"]

\* PackEntry values (package.go:80-84)
Entry(ref, state, path) == [SourceRef |-> ref, SourceState |-> state, FilePath |-> path]
EmptyEntry == Entry("", ZeroState, "")
NilEntry == [SourceRef |-> "<nil>", SourceState |-> ZeroState, FilePath |-> "<nil>"]

KernelEntries ==
    {EmptyEntry}
    \cup {Entry("local", Local(BuildContext), p) : p \in KernelPaths}
    \cup {Entry(r, Image(r), p) : r \in Refs, p \in KernelPaths}

RootfsEntries ==
    {EmptyEntry}
    \cup {Entry("local", Local(BuildContext), p) : p \in RootfsPaths}
    \cup {Entry(r, Image(r), p) : r \in Refs, p \in RootfsPaths}
    \cup {Entry("scratch", Created("initrd"), DefaultRootfsPath),
          Entry("scratch", Created("raw"), "")}

IsRemoteRef(ref) == ref \notin {"", "local", "scratch", "<nil>"}

---------------------------------------------------------------------------
(* Framework variants *)

\* NewGeneric: the rootfs type defaults to raw
NewGeneric(plat, rfs) ==
    [Name |-> genericName,
     Version |-> plat.Version,
     Monitor |-> plat.Monitor,
     Rootfs |-> [rfs EXCEPT !.Type = IF rfs.Type = "" THEN "raw" ELSE rfs.Type]]

\* NewUnikraft: the rootfs type defaults to initrd
NewUnikraft(plat, rfs) ==
    [Name |-> unikraftName,
     Version |-> plat.Version,
     Monitor |-> plat.Monitor,
     Rootfs |-> [rfs EXCEPT !.Type = IF rfs.Type = "" THEN "initrd" ELSE rfs.Type]]

GetRootfsType(f) == f.Rootfs.Type

\* ToPack's switch on h.Platform.Framework: unikraft, or generic for any
\* other name
SelectFramework(plat, rfs) ==
    IF plat.Framework = unikraftName
    THEN NewUnikraft(plat, rfs)
    ELSE NewGeneric(plat, rfs)

NoFramework == [Name |-> "", Version |-> "", Monitor |-> "", Rootfs |-> NoRequest.Rootfs]

\* newRumprun and NewMirage: no default rootfs type, no version
newRumprun(plat, rfs) ==
    [Name |-> rumprunName, Version |-> "", Monitor |-> plat.Monitor, Rootfs |-> rfs]

NewMirage(plat, rfs) ==
    [Name |-> mirageName, Version |-> "", Monitor |-> plat.Monitor, Rootfs |-> rfs]

\* the variants a caller can build for a platform and a rootfs
Variants(plat, rfs) ==
    {NewGeneric(plat, rfs), NewUnikraft(plat, rfs),
     newRumprun(plat, rfs), NewMirage(plat, rfs)}

Name(f) == f.Name

---------------------------------------------------------------------------
(* Framework methods, one operator per variant and a dispatch on the       *)
(* variant for the interface call.                                         *)

\* mutant: every rootfs type is accepted
GenericInfo_SupportsRootfsType_Any(rootfsType) == TRUE

GenericInfo_SupportsRootfsType(rootfsType) == rootfsType \in {"initrd", "block", "raw"}
GenericInfo_SupportsMonitor(monitor) == TRUE
GenericInfo_SupportsArch(arch) == TRUE

UnikraftInfo_SupportsRootfsType(rootfsType) == rootfsType \in {"initrd", "raw"}
UnikraftInfo_SupportsMonitor(monitor) == monitor \in {"qemu", "firecracker"}
UnikraftInfo_SupportsArch(arch) == arch \in {"x86_64", "amd64", "aarch64"}

rumprunInfo_SupportsRootfsType(rootfsType) == rootfsType \in {"initrd", "raw"}
rumprunInfo_SupportsMonitor(monitor) == FALSE
rumprunInfo_SupportsArch(arch) == arch \in {"x86_64", "amd64", "aarch64"}

mirageInfo_SupportsRootfsType(rootfsType) == rootfsType \in {"block", "raw"}
mirageInfo_SupportsMonitor(monitor) == FALSE
mirageInfo_SupportsArch(arch) == arch \in {"x86_64", "amd64", "aarch64"}

SupportsRootfsType(f, rootfsType) ==
    CASE Name(f) = unikraftName -> UnikraftInfo_SupportsRootfsType(rootfsType)
      [] Name(f) = rumprunName -> rumprunInfo_SupportsRootfsType(rootfsType)
      [] Name(f) = mirageName -> mirageInfo_SupportsRootfsType(rootfsType)
      [] OTHER -> GenericInfo_SupportsRootfsType(rootfsType)

SupportsMonitor(f, monitor) ==
    CASE Name(f) = unikraftName -> UnikraftInfo_SupportsMonitor(monitor)
      [] Name(f) = rumprunName -> rumprunInfo_SupportsMonitor(monitor)
      [] Name(f) = mirageName -> mirageInfo_SupportsMonitor(monitor)
      [] OTHER -> GenericInfo_SupportsMonitor(monitor)

SupportsArch(f, arch) ==
    CASE Name(f) = unikraftName -> UnikraftInfo_SupportsArch(arch)
      [] Name(f) = rumprunName -> rumprunInfo_SupportsArch(arch)
      [] Name(f) = mirageName -> mirageInfo_SupportsArch(arch)
      [] OTHER -> GenericInfo_SupportsArch(arch)

ErrUnsupportedRootfsType == "Unsupported rootfs type"
ErrUpdateInitrd == "Can not update an initrd rootfs"
ErrMirageCreate == "Can not create rootfs for Mirage"
ErrMirageUpdate == "Can not update rootfs for Mirage"

\* CreateRootfs of GenericInfo and of UnikraftInfo: initrd and raw are
\* built, any other type is an error next to an empty state
GenericInfo_CreateRootfs(f, buildContext) ==
    CASE f.Rootfs.Type = "initrd" ->
            [state |-> InitrdLLB(FilesLLB(f.Rootfs.Includes, Local(buildContext), Scratch)),
             err |-> ""]
      [] f.Rootfs.Type = "raw" ->
            [state |-> FilesLLB(f.Rootfs.Includes, Local(buildContext), Scratch),
             err |-> ""]
      [] OTHER ->
            [state |-> Scratch, err |-> ErrUnsupportedRootfsType]

UnikraftInfo_CreateRootfs(f, buildContext) ==
    CASE f.Rootfs.Type = "initrd" ->
            [state |-> InitrdLLB(FilesLLB(f.Rootfs.Includes, Local(buildContext), Scratch)),
             err |-> ""]
      [] f.Rootfs.Type = "raw" ->
            [state |-> FilesLLB(f.Rootfs.Includes, Local(buildContext), Scratch),
             err |-> ""]
      [] OTHER ->
            [state |-> Scratch, err |-> ErrUnsupportedRootfsType]

\* CreateRootfs of rumprunInfo: the files of the include list on an empty
\* image whatever the rootfs type is; it has no error result
rumprunInfo_CreateRootfs(f, buildContext) ==
    [state |-> FilesLLB(f.Rootfs.Includes, Local(buildContext), Scratch), err |-> ""]

mirageInfo_CreateRootfs(f, buildContext) ==
    [state |-> Scratch, err |-> ErrMirageCreate]

CreateRootfs(f, buildContext) ==
    CASE Name(f) = unikraftName -> UnikraftInfo_CreateRootfs(f, buildContext)
      [] Name(f) = rumprunName -> rumprunInfo_CreateRootfs(f, buildContext)
      [] Name(f) = mirageName -> mirageInfo_CreateRootfs(f, buildContext)
      [] OTHER -> GenericInfo_CreateRootfs(f, buildContext)

\* UpdateRootfs of GenericInfo and of UnikraftInfo: only a raw rootfs can
\* take more files
GenericInfo_UpdateRootfs(f, buildContext) ==
    CASE f.Rootfs.Type = "initrd" ->
            [state |-> Scratch, err |-> ErrUpdateInitrd]
      [] f.Rootfs.Type = "raw" ->
            [state |-> FilesLLB(f.Rootfs.Includes, Local(buildContext), Image(f.Rootfs.From)),
             err |-> ""]
      [] OTHER ->
            [state |-> Scratch, err |-> ErrUnsupportedRootfsType]

UnikraftInfo_UpdateRootfs(f, buildContext) ==
    CASE f.Rootfs.Type = "initrd" ->
            [state |-> Scratch, err |-> ErrUpdateInitrd]
      [] f.Rootfs.Type = "raw" ->
            [state |-> FilesLLB(f.Rootfs.Includes, Local(buildContext), Image(f.Rootfs.From)),
             err |-> ""]
      [] OTHER ->
            [state |-> Scratch, err |-> ErrUnsupportedRootfsType]

mirageInfo_UpdateRootfs(f, buildContext) ==
    [state |-> Scratch, err |-> ErrMirageUpdate]

\* rumprunInfo has no UpdateRootfs method
HasUpdateRootfs(f) == Name(f) # rumprunName

UpdateRootfs(f, buildContext) ==
    CASE Name(f) = unikraftName -> UnikraftInfo_UpdateRootfs(f, buildContext)
      [] Name(f) = mirageName -> mirageInfo_UpdateRootfs(f, buildContext)
      [] OTHER -> GenericInfo_UpdateRootfs(f, buildContext)

---------------------------------------------------------------------------
(* Entry resolution *)

\* maps a reference to a source state: "scratch" is the empty state, any
\* other reference a remote image
GetSourceState(ref, mon) ==
    IF ref = "scratch" THEN Scratch ELSE Image(ref)

\* the pointer handleKernel declares: "var entry *PackEntry" allocates
\* nothing, so entry is nil
handleKernelEntryDecl == NilEntry

\* handleKernel: every field store goes through the declared pointer; a
\* store through a nil pointer panics
handleKernel(f, buildContext, mon, k) ==
    LET entry == handleKernelEntryDecl IN
    IF entry = NilEntry
    THEN [panic |-> TRUE, entry |-> NilEntry]
    ELSE [panic |-> FALSE,
          entry |-> Entry(k.From,
                          IF k.From = "local"
                          THEN Local(buildContext)
                          ELSE GetSourceState(k.From, mon),
                          k.Path)]

\* the pointer handleRootfs declares, nil as in handleKernel
handleRootfsEntryDecl == NilEntry

ErrCannotBuild(rootfsType, name) ==
    "Cannot build " \o rootfsType \o " rootfs for " \o name
ErrCouldNotCreate == "Could not create rootfs"

\* mutant: the rootfs type is not checked against the framework
handleRootfs_NoSupportCheck(f, buildContext, mon, r) ==
    LET entry == handleRootfsEntryDecl IN
    IF (r.From # "scratch" /\ r.From # "") \/ r.Includes # <<>>
    THEN [panic |-> TRUE, entry |-> NilEntry, err |-> "", calls |-> {}]
    ELSE [panic |-> FALSE, entry |-> entry, err |-> "", calls |-> {}]

\* handleRootfs: the result is a panic, or the returned pointer (NilEntry
\* for nil) and error; calls is the set of state-producing calls made on
\* the way
handleRootfs(f, buildContext, mon, r) ==
    LET entry == handleRootfsEntryDecl IN
    IF r.Type # "" /\ ~SupportsRootfsType(f, r.Type)
    THEN [panic |-> FALSE, entry |-> NilEntry,
          err |-> ErrCannotBuild(r.Type, Name(f)), calls |-> {}]
    ELSE IF r.From # "scratch" /\ r.From # ""
    THEN IF entry = NilEntry
         THEN [panic |-> TRUE, entry |-> NilEntry, err |-> "", calls |-> {}]
         ELSE [panic |-> FALSE,
               entry |-> Entry(r.From,
                               IF r.From = "local"
                               THEN Local(buildContext)
                               ELSE GetSourceState(r.From, mon),
                               r.Path),
               err |-> "",
               calls |-> IF r.From = "local" THEN {"Local"} ELSE {"GetSourceState"}]
    ELSE IF r.Includes # <<>>
    THEN IF entry = NilEntry
         THEN [panic |-> TRUE, entry |-> NilEntry, err |-> "", calls |-> {}]
         ELSE LET created == CreateRootfs(f, buildContext) IN
              IF created.err # ""
              THEN [panic |-> FALSE, entry |-> NilEntry,
                    err |-> ErrCouldNotCreate, calls |-> {"CreateRootfs"}]
              ELSE [panic |-> FALSE,
                    entry |-> Entry("scratch", created.state,
                                    IF GetRootfsType(f) # "raw"
                                    THEN DefaultRootfsPath
                                    ELSE ""),
                    err |-> "", calls |-> {"CreateRootfs"}]
    ELSE [panic |-> FALSE, entry |-> entry, err |-> "", calls |-> {}]

\* mutant: source path and destination are exchanged
makeCopy_SwapPaths(entry, dst) ==
    [SrcState |-> entry.SourceState, SrcPath |-> dst, DstPath |-> entry.FilePath]

makeCopy(entry, dst) ==
    [SrcState |-> entry.SourceState, SrcPath |-> entry.FilePath, DstPath |-> dst]

---------------------------------------------------------------------------
(* Include entries and the copy chain.  An entry is the sequence of its    *)
(* characters; a path cut out of it is a sequence of characters too.       *)

Chars == {"a", "b", ":"}
IncludeEntries == UNION {[1..n -> Chars] : n \in 0..MaxEntryLen}

\* the index of the first ":" at or after position i, 0 if there is none
RECURSIVE IndexColon(_, _)
IndexColon(str, i) ==
    IF i > Len(str) THEN 0
    ELSE IF str[i] = ":" THEN i
    ELSE IndexColon(str, i + 1)

\* strings.Split(str, ":")
RECURSIVE Split(_)
Split(str) ==
    LET c == IndexColon(str, 1) IN
    IF c = 0
    THEN <<str>>
    ELSE <<SubSeq(str, 1, c - 1)>> \o Split(SubSeq(str, c + 1, Len(str)))

\* strings.SplitN(str, ":", 2)
SplitN2(str) ==
    LET c == IndexColon(str, 1) IN
    IF c = 0
    THEN <<str>>
    ELSE <<SubSeq(str, 1, c - 1), SubSeq(str, c + 1, Len(str))>>

ErrInvalidFileList == "Invalid format of the file list to copy"

\* CopyLLB: a file-copy node on top of the state it is applied to
CopyLLB(to, from) == [op |-> "copy", arg |-> from, input |-> to]

\* mutant: every copy is put on the destination base
RECURSIVE FilesLLB2Loop_Parallel(_, _, _, _, _)
FilesLLB2Loop_Parallel(fileList, fromState, toState, i, retState) ==
    IF i > Len(fileList)
    THEN [state |-> retState, err |-> ""]
    ELSE LET parts == Split(fileList[i]) IN
         IF Len(parts) < 1 \/ Len(parts) > 2 \/ Len(parts[1]) = 0
         THEN [state |-> Scratch, err |-> ErrInvalidFileList]
         ELSE LET aCopy == [SrcState |-> fromState,
                            SrcPath |-> parts[1],
                            DstPath |-> IF Len(parts) = 2 /\ Len(parts[2]) > 0
                                        THEN parts[2]
                                        ELSE parts[1]]
              IN FilesLLB2Loop_Parallel(fileList, fromState, toState, i + 1,
                                        CopyLLB(toState, aCopy))

\* the loop of FilesLLB (the revision with an error result) from its i-th
\* entry on, retState being the state built so far
RECURSIVE FilesLLB2Loop(_, _, _, _, _)
FilesLLB2Loop(fileList, fromState, toState, i, retState) ==
    IF i > Len(fileList)
    THEN [state |-> retState, err |-> ""]
    ELSE LET parts == Split(fileList[i]) IN
         IF Len(parts) < 1 \/ Len(parts) > 2 \/ Len(parts[1]) = 0
         THEN [state |-> Scratch, err |-> ErrInvalidFileList]
         ELSE LET aCopy == [SrcState |-> fromState,
                            SrcPath |-> parts[1],
                            DstPath |-> IF Len(parts) = 2 /\ Len(parts[2]) > 0
                                        THEN parts[2]
                                        ELSE parts[1]]
              IN FilesLLB2Loop(fileList, fromState, toState, i + 1,
                               IF i = 1
                               THEN CopyLLB(toState, aCopy)
                               ELSE CopyLLB(retState, aCopy))

\* FilesLLB with an error result: retState starts as the empty image
FilesLLB2(fileList, fromState, toState) ==
    FilesLLB2Loop(fileList, fromState, toState, 1, Scratch)

\* the entries and lists the copy chain is called with
FileEntries ==
    {<<"a">>, <<"b">>, <<"a", ":", "b">>, <<"b", ":">>,
     <<":", "b">>, <<"a", ":", "b", ":", "a">>}
FileLists == UNION {[1..n -> FileEntries] : n \in 0..MaxFiles}
ToStates == {Scratch} \cup {Image(r) : r \in Refs}
FilesLLBCalls ==
    [fn : {"FilesLLB"},
     arg : [fileList : FileLists, fromState : {Local(BuildContext)}, toState : ToStates]]

\* FileToInclude.UnmarshalYAML: the decoded mapping, or the error
NoInclude == [From |-> "", Src |-> <<>>, Dst |-> <<>>]
ErrSrcEmpty == "invalid file mapping, src is empty"
ErrSourceEmpty == "invalid file mapping: source is empty"
ErrDestinationEmpty == "invalid file mapping: destination is empty"
ErrIncludeFormat == "invalid Include file format"

UnmarshalYAML(node) ==
    CASE node.Kind = "scalar" ->
            LET parts == SplitN2(node.Value) IN
            IF Len(parts[1]) = 0
            THEN [f |-> NoInclude, err |-> ErrSrcEmpty]
            ELSE [f |-> [From |-> "local",
                         Src |-> parts[1],
                         Dst |-> IF Len(parts) = 2 /\ Len(parts[2]) # 0
                                 THEN parts[2]
                                 ELSE parts[1]],
                  err |-> ""]
      [] node.Kind = "mapping" ->
            IF Len(node.Src) = 0
            THEN [f |-> NoInclude, err |-> ErrSourceEmpty]
            ELSE IF Len(node.Dst) = 0
            THEN [f |-> NoInclude, err |-> ErrDestinationEmpty]
            ELSE [f |-> [From |-> IF node.From = "" THEN "local" ELSE node.From,
                         Src |-> node.Src,
                         Dst |-> node.Dst],
                  err |-> ""]
      [] OTHER ->
            [f |-> NoInclude, err |-> ErrIncludeFormat]

YAMLNodes ==
    [Kind : {"scalar"}, Value : IncludeEntries]
    \cup [Kind : {"mapping"}, From : {"", "local"},
          Src : {<<>>, <<"a">>}, Dst : {<<>>, <<"b">>}]
    \cup {[Kind |-> "sequence"]}
UnmarshalYAMLCalls == [fn : {"UnmarshalYAML"}, arg : YAMLNodes]

ErrRootfsFromEmpty == "The from field of rootfs can not be empty or scratch, if path is set"
ErrRootfsPathRaw == "The path field in rootfs can not be combined with a raw rootfs"
ErrRootfsLocalRaw == "If type of rootfs is raw, then from can not be local"
ErrRootfsAddFiles == "Adding files to an existing rootfs is not yet supported"
ErrRootfsInclude == "Invalid syntax in rootf's include. An entry can not have its first part empty"

\* the loop of ValidateRootfs over the include list
RECURSIVE ValidateIncludes(_, _)
ValidateIncludes(includes, i) ==
    IF i > Len(includes) THEN ""
    ELSE LET parts == Split(includes[i]) IN
         IF Len(parts) < 1 \/ Len(parts[1]) = 0
         THEN ErrRootfsInclude
         ELSE ValidateIncludes(includes, i + 1)

\* ValidateRootfs: the error, "" for nil
ValidateRootfs(rootfs) ==
    IF rootfs.From = "scratch" /\ rootfs.Path # ""
    THEN ErrRootfsFromEmpty
    ELSE IF rootfs.Path # "" /\ rootfs.Type = "raw"
    THEN ErrRootfsPathRaw
    ELSE IF rootfs.From = "local" /\ rootfs.Type = "raw"
    THEN ErrRootfsLocalRaw
    ELSE IF Len(rootfs.Includes) > 0 /\ rootfs.From # "scratch"
    THEN ErrRootfsAddFiles
    ELSE ValidateIncludes(rootfs.Includes, 1)

\* the rootfs fields validation is called with
ValidateIncludeLists == {<<e>> : e \in IncludeEntries} \cup FileLists
ValidateRootfses ==
    [From : RootfsFroms, Path : {"", "rootfs"}, Type : {"", "initrd", "raw"},
     Includes : ValidateIncludeLists]
ValidateRootfsCalls == [fn : {"ValidateRootfs"}, arg : ValidateRootfses]

---------------------------------------------------------------------------
(* PackLLB.  The annotation map is ranged over in an order the runtime     *)
(* picks; order is that sequence of keys.                                  *)

uruncJSONPath == "/urunc.json"
ErrUnsupportedArch == "Unsupported architecture"

\* base64.StdEncoding.EncodeToString
Base64(val) == [base64 |-> val]

\* the annotation keys in byte order, the order json.Marshal writes the
\* keys of a map in
SortedAnnotKeys ==
    <<AnnotBinary, AnnotBlkMntPoint, AnnotBlock, AnnotCmdline, AnnotHypervisor,
      AnnotInitrd, AnnotMountRootfs, AnnotUnikernelType, AnnotVersion>>

\* lines 266-269: the map filled key by key in the order of the range
RECURSIVE EncodeAnnots(_, _, _)
EncodeAnnots(annots, order, i) ==
    IF i > Len(order)
    THEN <<>>
    ELSE EncodeAnnots(annots, order, i + 1)
         @@ (order[i] :> Base64(annots[order[i]]))

\* json.Marshal of a map of strings: the members sorted by key
JSONMarshal(m) ==
    LET idx == {i \in 1..Len(SortedAnnotKeys) : SortedAnnotKeys[i] \in DOMAIN m}
        Rank(i) == Cardinality({j \in idx : j <= i})
    IN [n \in 1..Cardinality(idx) |->
            LET i == CHOOSE j \in idx : Rank(j) = n
            IN <<SortedAnnotKeys[i], m[SortedAnnotKeys[i]]>>]

\* mutant: the members are written in the order of the range
UruncJSONBytes_RangeOrder(annots, order) ==
    [n \in 1..Len(order) |-> <<order[n], Base64(annots[order[n]])>>]

\* lines 262-273: the content of urunc.json
UruncJSONBytes(annots, order) == JSONMarshal(EncodeAnnots(annots, order, 1))

\* lines 276-278: the copies applied one after the other
RECURSIVE ApplyCopies(_, _, _)
ApplyCopies(base, copies, i) ==
    IF i > Len(copies)
    THEN base
    ELSE ApplyCopies(CopyLLB(base, copies[i]), copies, i + 1)

Mkfile(base, path, data) ==
    [op |-> "mkfile", arg |-> [path |-> path, mode |-> "0644", data |-> data],
     input |-> base]

\* mutant: urunc.json is written on the base, the copies come after it
PackLLBGraph_MkfileFirst(in, order) ==
    ApplyCopies(Mkfile(in.Base, uruncJSONPath, UruncJSONBytes(in.Annots, order)),
                in.Copies, 1)

\* lines 263-281: the state that is marshalled
PackLLBGraph(in, order) ==
    Mkfile(ApplyCopies(in.Base, in.Copies, 1),
           uruncJSONPath, UruncJSONBytes(in.Annots, order))

\* lines 283-298: the definition for the architecture of the build
PackLLB(in, order, goarch) ==
    IF goarch \in {"amd64", "arm", "arm64"}
    THEN [state |-> [op |-> "definition", arg |-> goarch,
                     input |-> PackLLBGraph(in, order)],
          err |-> ""]
    ELSE [state |-> ZeroState, err |-> ErrUnsupportedArch]

\* the orders a range over the map can take
Orders(annots) ==
    {o \in [1..Cardinality(DOMAIN annots) -> DOMAIN annots] :
        \A i, j \in DOMAIN o : i # j => o[i] # o[j]}

\* the plans PackLLB is called with
PlanCopies ==
    {[SrcState |-> Local(BuildContext), SrcPath |-> "kernel", DstPath |-> DefaultKernelPath],
     [SrcState |-> Local(BuildContext), SrcPath |-> "rootfs", DstPath |-> DefaultRootfsPath]}
PlanCopyLists == UNION {[1..n -> PlanCopies] : n \in 0..MaxFiles}
PlanAnnotKeys == {AnnotBinary, AnnotCmdline, AnnotMountRootfs}
PlanAnnots ==
    UNION {[keys -> {"false", "kernel"}] : keys \in SUBSET PlanAnnotKeys}
Plans == [Base : ToStates, Copies : PlanCopyLists, Annots : PlanAnnots]
GoArchs == {"amd64", "arm", "arm64", "riscv64"}
PackLLBCalls == [fn : {"PackLLB"}, arg : [instr : Plans, goarch : GoArchs]]

---------------------------------------------------------------------------
(* ParseContainerfile (parse_file.go:118-192).  children is the sequence   *)
(* of instruction nodes the Dockerfile parser hands back: Value is the     *)
(* lower-cased instruction word, Args its arguments, StartLine the line    *)
(* of the file it stands on.                                               *)

\* a nil *PackInstructions
NilPlan == [op |-> "nil", arg |-> ""]

ErrFailedParse == "Failed to parse data as Dockerfile: file with no instructions"
ErrMultiStage == "Multi-stage builds are not supported"
ErrUnsupportedCommand(name) == "Unsupported command: " \o name
ErrLine(line, msg) == "Line " \o ToString(line) \o ": " \o msg
ErrUnknownInstruction(name) == "unknown instruction: " \o name
ErrFromArgs == "FROM requires either one or three arguments"
ErrCopyArgs == "COPY requires at least two arguments, but only one was provided"

\* the instructions of a Dockerfile that ParseInstruction turns into a
\* command ParseContainerfile has no case for
OtherCommands == {"run", "arg", "add", "workdir", "user", "expose", "volume",
                  "onbuild", "shell", "healthcheck", "stopsignal", "maintainer"}

\* strings.Trim(s, "\"") on the label texts of the model
TrimQuotes(s) ==
    CASE s = "\"qemu\"" -> "qemu"
      [] s = "\"foo\"" -> "foo"
      [] OTHER -> s

\* instructions.ParseInstruction(child): the typed command or an error
ParseInstruction(node) ==
    CASE node.Value = "from" ->
            IF Len(node.Args) = 0
            THEN [err |-> ErrFromArgs, cmd |-> [Type |-> "none"]]
            ELSE [err |-> "", cmd |-> [Type |-> "Stage", BaseName |-> node.Args[1]]]
      [] node.Value = "copy" ->
            IF Len(node.Args) < 2
            THEN [err |-> ErrCopyArgs, cmd |-> [Type |-> "none"]]
            ELSE [err |-> "",
                  cmd |-> [Type |-> "CopyCommand",
                           SourcePaths |-> SubSeq(node.Args, 1, Len(node.Args) - 1),
                           DestPath |-> node.Args[Len(node.Args)]]]
      [] node.Value = "label" ->
            [err |-> "",
             cmd |-> [Type |-> "LabelCommand",
                      Labels |-> <<[Key |-> node.Args[1], Value |-> node.Args[2]]>>]]
      [] node.Value = "cmd" ->
            [err |-> "", cmd |-> [Type |-> "CmdCommand", CmdLine |-> node.Args]]
      [] node.Value = "entrypoint" ->
            [err |-> "", cmd |-> [Type |-> "EntrypointCommand", CmdLine |-> node.Args]]
      [] node.Value = "env" ->
            [err |-> "",
             cmd |-> [Type |-> "EnvCommand",
                      Env |-> <<[Key |-> node.Args[1], Value |-> node.Args[2]]>>]]
      [] node.Value \in OtherCommands ->
            [err |-> "", cmd |-> [Type |-> "Command", Name |-> node.Value]]
      [] OTHER ->
            [err |-> ErrUnknownInstruction(node.Value), cmd |-> [Type |-> "none"]]

\* lines 119-122
NewContainerInstr ==
    [Base |-> Scratch, Copies |-> <<>>, Annots |-> <<>>,
     Config |-> [Cmd |-> <<>>, Entrypoint |-> <<>>, EnVars |-> <<>>,
                 BaseRef |-> "", Monitor |-> ""]]

\* mutant: a command without a case of its own is skipped
HandleCommand_SkipOthers(acc, cmd, buildContext) ==
    CASE cmd.Type = "Stage" ->
            IF acc.BaseString # ""
            THEN [acc EXCEPT !.err = ErrMultiStage]
            ELSE [acc EXCEPT !.BaseString = cmd.BaseName]
      [] cmd.Type = "CopyCommand" ->
            [acc EXCEPT !.instr.Copies =
                Append(@, [SrcState |-> Local(buildContext),
                           SrcPath |-> cmd.SourcePaths[1],
                           DstPath |-> cmd.DestPath])]
      [] cmd.Type = "LabelCommand" ->
            [acc EXCEPT !.instr.Annots =
                (TrimQuotes(cmd.Labels[1].Key) :> TrimQuotes(cmd.Labels[1].Value)) @@ @]
      [] cmd.Type = "CmdCommand" ->
            [acc EXCEPT !.instr.Config.Cmd = cmd.CmdLine]
      [] cmd.Type = "EntrypointCommand" ->
            [acc EXCEPT !.instr.Config.Entrypoint = cmd.CmdLine]
      [] cmd.Type = "EnvCommand" ->
            [acc EXCEPT !.instr.Config.EnVars =
                Append(@, cmd.Env[1].Key \o "=" \o cmd.Env[1].Value)]
      [] OTHER -> acc

\* lines 138-173: the type switch on one command; acc carries the plan
\* under construction, BaseString and the error the function returns with
HandleCommand(acc, cmd, buildContext) ==
    CASE cmd.Type = "Stage" ->
            IF acc.BaseString # ""
            THEN [acc EXCEPT !.err = ErrMultiStage]
            ELSE [acc EXCEPT !.BaseString = cmd.BaseName]
      [] cmd.Type = "CopyCommand" ->
            [acc EXCEPT !.instr.Copies =
                Append(@, [SrcState |-> Local(buildContext),
                           SrcPath |-> cmd.SourcePaths[1],
                           DstPath |-> cmd.DestPath])]
      [] cmd.Type = "LabelCommand" ->
            [acc EXCEPT !.instr.Annots =
                (TrimQuotes(cmd.Labels[1].Key) :> TrimQuotes(cmd.Labels[1].Value)) @@ @]
      [] cmd.Type = "CmdCommand" ->
            [acc EXCEPT !.instr.Config.Cmd = cmd.CmdLine]
      [] cmd.Type = "EntrypointCommand" ->
            [acc EXCEPT !.instr.Config.Entrypoint = cmd.CmdLine]
      [] cmd.Type = "EnvCommand" ->
            [acc EXCEPT !.instr.Config.EnVars =
                Append(@, cmd.Env[1].Key \o "=" \o cmd.Env[1].Value)]
      [] OTHER ->
            [acc EXCEPT !.err = ErrUnsupportedCommand(cmd.Name)]

\* lines 133-175: the loop over the children, left at the first error
RECURSIVE ParseContainerfileLoop(_, _, _, _)
ParseContainerfileLoop(children, i, acc, buildContext) ==
    IF i > Len(children) THEN acc
    ELSE LET parsed == ParseInstruction(children[i]) IN
         IF parsed.err # ""
         THEN [acc EXCEPT !.err = ErrLine(children[i].StartLine, parsed.err)]
         ELSE LET next == HandleCommand(acc, parsed.cmd, buildContext) IN
              IF next.err # "" THEN next
              ELSE ParseContainerfileLoop(children, i + 1, next, buildContext)

\* the value of a key of a Go map: "" when the key is absent
MapGet(m, key) == IF key \in DOMAIN m THEN m[key] ELSE ""

\* strings.Split(s, " ") on the command lines of the model
SplitSpaces(s) == IF s = "a b" THEN <<"a", "b">> ELSE <<s>>

\* lines 176-191: base, image configuration and the cmdline fallback
FinishContainerInstr(in, BaseString) ==
    LET mon == MapGet(in.Annots, AnnotHypervisor)
        based == [in EXCEPT !.Base = GetSourceState(BaseString, mon)]
        configured ==
            IF BaseString # "scratch" /\ BaseString # ""
            THEN [based EXCEPT !.Config.BaseRef = BaseString,
                               !.Config.Monitor = mon]
            ELSE based
    IN IF Len(configured.Config.Cmd) = 0 /\ MapGet(in.Annots, AnnotCmdline) # ""
       THEN [configured EXCEPT
                !.Config.Cmd = SplitSpaces(MapGet(in.Annots, AnnotCmdline))]
       ELSE configured

\* ParseContainerfile: the plan (NilPlan for nil) and the error ("" for nil)
ParseContainerfile(children, buildContext) ==
    IF Len(children) = 0
    THEN [instr |-> NilPlan, err |-> ErrFailedParse]
    ELSE LET acc == ParseContainerfileLoop(
                        children, 1,
                        [instr |-> NewContainerInstr, BaseString |-> "", err |-> ""],
                        buildContext)
         IN IF acc.err # ""
            THEN [instr |-> NilPlan, err |-> acc.err]
            ELSE [instr |-> FinishContainerInstr(acc.instr, acc.BaseString),
                  err |-> ""]

\* the instruction nodes and the files ParseContainerfile is called with
ContainerNodes ==
    {[Value |-> "from", Args |-> <<"scratch">>],
     [Value |-> "from", Args |-> <<"foo">>],
     [Value |-> "from", Args |-> <<>>],
     [Value |-> "copy", Args |-> <<"foo", "bar">>],
     [Value |-> "label", Args |-> <<"foo", "bar">>],
     [Value |-> "label", Args |-> <<AnnotHypervisor, "\"qemu\"">>],
     [Value |-> "label", Args |-> <<AnnotCmdline, "a b">>],
     [Value |-> "cmd", Args |-> <<"run">>],
     [Value |-> "entrypoint", Args |-> <<"init">>],
     [Value |-> "env", Args |-> <<"k", "v">>],
     [Value |-> "run", Args |-> <<"bar">>],
     [Value |-> "arg", Args |-> <<"x">>],
     [Value |-> "version:", Args |-> <<"0.1">>]}
\* a file of the tests opens with an empty line: instruction i is on line i + 1
Containerfiles ==
    UNION {{[i \in 1..n |-> [Value |-> f[i].Value, Args |-> f[i].Args,
                             StartLine |-> i + 1]] : f \in [1..n -> ContainerNodes]}
           : n \in 0..MaxInstrs}
ParseContainerfileCalls == [fn : {"ParseContainerfile"}, arg : Containerfiles]

---------------------------------------------------------------------------
(* ParseBunnyfile (parse_file.go:73-114) with the validators of            *)
(* validate.go, and ParseFile (parse_file.go:196-221).  A file is the      *)
(* sequence of its lines, a line a sequence of tokens: " " is white        *)
(* space, "#" opens a comment, "FROM" is the text FROM and an image        *)
(* reference, "key" is a line of YAML.  doc is what the YAML lines of the  *)
(* file decode to.                                                         *)

Version == "v0.1"

ErrVersionNecessary == "The version field is necessary"
ErrVersionParse(v) == "Could not parse version in user bunnyfile " \o v
ErrVersionUnsupported(v) ==
    "Unsupported version " \o v \o ". Please use " \o Version \o " or earlier"
ErrFrameworkNecessary == "The framework field of platforms is necessary"
ErrMonitorNecessary == "The monitor field of platforms is necessary"
ErrKernelFromNecessary == "The from field of kernel is necessary"
ErrKernelPathNecessary == "The path field of kernel is necessary"
ErrYAML == "yaml: unmarshal errors"
ErrInvalidFormat == "Invalid format of file"

\* version.NewVersion on the version texts of the model: the segments,
\* <<>> for a text that is no version
NewVersion(v) ==
    CASE v = "v0.1" -> <<0, 1>>
      [] v = "v0.2" -> <<0, 2>>
      [] v = "0.0.9" -> <<0, 0, 9>>
      [] OTHER -> <<>>

Segment(v, i) == IF i <= Len(v) THEN v[i] ELSE 0

\* Version.LessThan: segment by segment, a missing segment is 0
LessThan(a, b) ==
    \E i \in 1..3 :
        /\ Segment(a, i) < Segment(b, i)
        /\ \A j \in 1..(i - 1) : Segment(a, j) = Segment(b, j)

\* validate.go:30-46
CheckBunnyfileVersion(fileVersion) ==
    IF fileVersion = "" THEN ErrVersionNecessary
    ELSE IF NewVersion(fileVersion) = <<>> THEN ErrVersionParse(fileVersion)
    ELSE IF LessThan(NewVersion(Version), NewVersion(fileVersion))
    THEN ErrVersionUnsupported(fileVersion)
    ELSE ""

\* validate.go:52-61
ValidatePlatform(plat) ==
    IF plat.Framework = "" THEN ErrFrameworkNecessary
    ELSE IF plat.Monitor = "" THEN ErrMonitorNecessary
    ELSE ""

\* mutant: every kernel is accepted
ValidateKernel_AcceptAll(kernel) == ""

\* validate.go:98-107
ValidateKernel(kernel) ==
    IF kernel.From = "" THEN ErrKernelFromNecessary
    ELSE IF kernel.Path = "" THEN ErrKernelPathNecessary
    ELSE ""

\* the characters of an include entry of a request
Runes(entry) == IF entry = "a:b" THEN <<"a", ":", "b">> ELSE <<>>

\* what ToPack reads of a decoded bunnyfile
HopsOf(doc) ==
    [Platform |-> doc.Platform, Rootfs |-> doc.Rootfs, Kernel |-> doc.Kernel,
     Cmd |-> doc.Cmd]

\* lines 76-113 on the outcome of yaml.Unmarshal: the request and the error
ParseBunnyfile(decoded) ==
    LET doc == decoded.doc
        fromSet == IF doc.Rootfs.From = ""
                   THEN [doc EXCEPT !.Rootfs.From = "scratch"]
                   ELSE doc
        cmdSet == IF fromSet.Cmd = "" /\ fromSet.Cmdline # ""
                  THEN [fromSet EXCEPT !.Cmd = fromSet.Cmdline]
                  ELSE fromSet
    IN IF decoded.err # "" THEN [hops |-> NoRequest, err |-> decoded.err]
       ELSE IF CheckBunnyfileVersion(doc.Version) # ""
       THEN [hops |-> NoRequest, err |-> CheckBunnyfileVersion(doc.Version)]
       ELSE IF ValidatePlatform(doc.Platform) # ""
       THEN [hops |-> NoRequest, err |-> ValidatePlatform(doc.Platform)]
       ELSE IF ValidateKernel(doc.Kernel) # ""
       THEN [hops |-> NoRequest, err |-> ValidateKernel(doc.Kernel)]
       ELSE LET rootfsErr ==
                    ValidateRootfs([fromSet.Rootfs EXCEPT !.Includes =
                        [i \in DOMAIN @ |-> Runes(@[i])]])
            IN IF rootfsErr # ""
               THEN [hops |-> NoRequest, err |-> rootfsErr]
               ELSE [hops |-> HopsOf(cmdSet), err |-> ""]

\* bytes.TrimSpace
RECURSIVE TrimLeft(_)
TrimLeft(line) ==
    IF Len(line) > 0 /\ line[1] = " " THEN TrimLeft(Tail(line)) ELSE line
RECURSIVE TrimRight(_)
TrimRight(line) ==
    IF Len(line) > 0 /\ line[Len(line)] = " "
    THEN TrimRight(SubSeq(line, 1, Len(line) - 1))
    ELSE line
TrimSpace(line) == TrimRight(TrimLeft(line))

\* strings.HasPrefix(string(line), "FROM")
HasPrefixFROM(line) == Len(line) > 0 /\ line[1] = "FROM"

\* lines 207-214: the loop over lines[1:], from index i of the model
RECURSIVE DetectContainerfile(_, _)
DetectContainerfile(lines, i) ==
    IF i > Len(lines) THEN FALSE
    ELSE IF Len(TrimSpace(lines[i])) > 0
    THEN HasPrefixFROM(lines[i])
    ELSE DetectContainerfile(lines, i + 1)

\* the lines a parser reads content on: not blank, not a comment
ContentLines(lines) ==
    SelectSeq([i \in DOMAIN lines |-> [Text |-> TrimSpace(lines[i]), StartLine |-> i]],
              LAMBDA l : Len(l.Text) > 0 /\ l.Text[1] # "#")

\* parser.Parse on the bytes: one node for each content line
DockerfileNodes(lines) ==
    LET content == ContentLines(lines) IN
    [i \in DOMAIN content |->
        IF content[i].Text[1] = "FROM"
        THEN [Value |-> "from", Args |-> <<"foo">>, StartLine |-> content[i].StartLine]
        ELSE [Value |-> "key:", Args |-> <<"value">>, StartLine |-> content[i].StartLine]]

\* the zero value of Hops
ZeroDoc ==
    [Version |-> "", Platform |-> NoRequest.Platform, Rootfs |-> NoRequest.Rootfs,
     Kernel |-> NoRequest.Kernel, Cmd |-> "", Cmdline |-> ""]

\* yaml.Unmarshal on the bytes: a line of plain text is no mapping, a file
\* without content leaves the zero value
YAMLUnmarshal(file) ==
    LET content == ContentLines(file.lines) IN
    IF \E i \in DOMAIN content : \E j \in DOMAIN content[i].Text :
           content[i].Text[j] = "FROM"
    THEN [doc |-> ZeroDoc, err |-> ErrYAML]
    ELSE IF Len(content) = 0 THEN [doc |-> ZeroDoc, err |-> ""]
    ELSE [doc |-> file.doc, err |-> ""]

\* ParseFile up to the call of ToPack: the parsers called, the request
\* handed to ToPack and the result when ToPack is not reached
ParseFile(file, buildContext) ==
    IF Len(file.lines) <= 1
    THEN [calls |-> {}, hops |-> NoRequest, instr |-> NilPlan, err |-> ErrInvalidFormat]
    ELSE IF DetectContainerfile(file.lines, 2)
    THEN LET res == ParseContainerfile(DockerfileNodes(file.lines), buildContext)
         IN [calls |-> {"ParseContainerfile"}, hops |-> NoRequest,
             instr |-> res.instr, err |-> res.err]
    ELSE LET res == ParseBunnyfile(YAMLUnmarshal(file))
         IN IF res.err # ""
            THEN [calls |-> {"ParseBunnyfile"}, hops |-> NoRequest,
                  instr |-> NilPlan, err |-> res.err]
            ELSE [calls |-> {"ParseBunnyfile", "ToPack"}, hops |-> res.hops,
                  instr |-> NilPlan, err |-> ""]

\* the lines, the files and the decoded documents ParseFile is called with
FileLines ==
    {<<>>, <<" ">>, <<"#">>, <<"#", "FROM">>, <<"FROM">>, <<" ", "FROM">>, <<"key">>}
Files == UNION {[1..n -> FileLines] : n \in 1..MaxLines}
BunnyfileLines == <<<<"#">>, <<"key">>, <<>>>>
DocOf(version, r, cmdline) ==
    [Version |-> version, Platform |-> r.Platform, Rootfs |-> r.Rootfs,
     Kernel |-> r.Kernel, Cmd |-> r.Cmd, Cmdline |-> cmdline]
RequestDocs == {DocOf(Version, r, "") : r \in Requests}
BunnyfileVersions == {"", "v0.1", "v0.2", "0.0.9", "foo"}
VersionDocs ==
    [Version : BunnyfileVersions,
     Platform : [Framework : {"", genericName}, Version : {""}, Monitor : {"", "qemu"}],
     Rootfs : {[From |-> "", Path |-> "", Type |-> "", Includes |-> <<>>]},
     Kernel : {[From |-> "local", Path |-> "kernel"]},
     Cmd : {"", "cmd"}, Cmdline : {"", "a b"}]
SampleDocs ==
    {d \in VersionDocs :
        /\ d.Version = Version /\ d.Platform.Framework = genericName
        /\ d.Cmd = "cmd" /\ d.Cmdline = ""}
ParseFileCalls ==
    [fn : {"ParseFile"}, arg : [lines : Files, doc : SampleDocs]]
    \cup [fn : {"ParseFile"},
          arg : [lines : {BunnyfileLines}, doc : RequestDocs \cup VersionDocs]]

\* calls of the functions that take no framework
PureCalls ==
    FilesLLBCalls \cup UnmarshalYAMLCalls \cup ValidateRootfsCalls
    \cup PackLLBCalls \cup ParseContainerfileCalls \cup ParseFileCalls

---------------------------------------------------------------------------
(* ToPack, block by block.  instr is the PackInstructions under            *)
(* construction: Base, Copies, Annots (a map: its domain is the set of     *)
(* keys present).                                                          *)

SetAnnot(in, key, val) == [in EXCEPT !.Annots = (key :> val) @@ in.Annots]
HasAnnot(in, key) == key \in DOMAIN in.Annots

\* lines 160-170: the annotations every plan starts with
NewInstr(plat, cmd) ==
    LET annots == (AnnotMountRootfs :> "false")
                  @@ (AnnotUnikernelType :> plat.Framework)
                  @@ (AnnotCmdline :> cmd)
                  @@ (AnnotHypervisor :> plat.Monitor)
    IN [Base |-> ZeroState,
        Copies |-> <<>>,
        Annots |-> IF plat.Version # ""
                   THEN (AnnotVersion :> plat.Version) @@ annots
                   ELSE annots]

\* mutant: the empty origin is not rejected and falls to the default case
KernelSwitchCase_NoEmptyCheck(k, r, in) ==
    IF k.SourceRef = "local"
    THEN [failed |-> FALSE,
          instr |-> [in EXCEPT !.Copies = Append(@, makeCopy(k, DefaultKernelPath)),
                               !.Base = Scratch],
          kernelCopy |-> TRUE]
    ELSE [failed |-> FALSE,
          instr |-> [in EXCEPT !.Base = r.SourceState],
          kernelCopy |-> FALSE]

\* mutant: a local kernel is used as the base instead of being copied
KernelSwitchCase_LocalAsBase(k, r, in) ==
    CASE k.SourceRef = "" ->
            [failed |-> TRUE, instr |-> in, kernelCopy |-> FALSE]
      [] k.SourceRef = "local" ->
            [failed |-> FALSE,
             instr |-> [in EXCEPT !.Base = k.SourceState],
             kernelCopy |-> FALSE]
      [] OTHER ->
            [failed |-> FALSE,
             instr |-> [in EXCEPT !.Base = r.SourceState],
             kernelCopy |-> FALSE]

\* lines 203-214: switch kernelEntry.SourceRef
KernelSwitchCase(k, r, in) ==
    CASE k.SourceRef = "" ->
            [failed |-> TRUE, instr |-> in, kernelCopy |-> FALSE]
      [] k.SourceRef = "local" ->
            [failed |-> FALSE,
             instr |-> [in EXCEPT !.Copies = Append(@, makeCopy(k, DefaultKernelPath)),
                                  !.Base = Scratch],
             kernelCopy |-> TRUE]
      [] OTHER ->
            [failed |-> FALSE,
             instr |-> [in EXCEPT !.Base = r.SourceState],
             kernelCopy |-> FALSE]

\* mutant: a remote rootfs with a file path is copied and the base kept
RootfsSwitchCase_CopyRemoteFile(r, in) ==
    CASE r.SourceRef = "" ->
            [instr |-> in, rootfsCopy |-> FALSE]
      [] r.SourceRef = "local" \/ (IsRemoteRef(r.SourceRef) /\ r.FilePath # "") ->
            [instr |-> [in EXCEPT !.Copies = Append(@, makeCopy(r, DefaultRootfsPath))],
             rootfsCopy |-> TRUE]
      [] OTHER ->
            [instr |-> [in EXCEPT !.Base = r.SourceState],
             rootfsCopy |-> FALSE]

\* lines 216-226: switch rootfsEntry.SourceRef
RootfsSwitchCase(r, in) ==
    CASE r.SourceRef = "" ->
            [instr |-> in, rootfsCopy |-> FALSE]
      [] r.SourceRef = "local" ->
            [instr |-> [in EXCEPT !.Copies = Append(@, makeCopy(r, DefaultRootfsPath))],
             rootfsCopy |-> TRUE]
      [] OTHER ->
            [instr |-> [in EXCEPT !.Base = r.SourceState],
             rootfsCopy |-> FALSE]

\* mutant: the tie-break never applies
TieBreakCond_Never(k, r, kc, rc) == FALSE

\* mutant: the tie-break always applies
TieBreakCond_Always(k, r, kc, rc) == TRUE

\* line 228: the condition of the tie-break
TieBreakCond(k, r, kc, rc) == ~rc /\ ~kc

\* lines 228-232
TieBreakCase(k, r, in, kc, rc) ==
    IF TieBreakCond(k, r, kc, rc)
    THEN [instr |-> [in EXCEPT !.Copies = Append(@, makeCopy(k, DefaultKernelPath))],
          kernelCopy |-> TRUE]
    ELSE [instr |-> in, kernelCopy |-> kc]

\* mutant: the binary annotation is always the entry's own path
BinaryAnnotCase_AlwaysOwnPath(k, in, kc) == SetAnnot(in, AnnotBinary, k.FilePath)

\* lines 234-241
BinaryAnnotCase(k, in, kc) ==
    IF kc
    THEN SetAnnot(in, AnnotBinary, DefaultKernelPath)
    ELSE SetAnnot(in, AnnotBinary, k.FilePath)

\* mutant: a type the switch does not know is let through
RootfsAnnotCase_UnknownTypeAccepted(f, r, in, rc) ==
    CASE GetRootfsType(f) = "initrd" ->
            [failed |-> FALSE,
             instr |-> IF rc
                       THEN SetAnnot(in, AnnotInitrd, DefaultRootfsPath)
                       ELSE SetAnnot(in, AnnotInitrd, r.FilePath)]
      [] GetRootfsType(f) = "raw" ->
            [failed |-> FALSE, instr |-> SetAnnot(in, AnnotMountRootfs, "true")]
      [] OTHER ->
            [failed |-> FALSE, instr |-> in]

\* lines 243-254: switch framework.GetRootfsType()
RootfsAnnotCase(f, r, in, rc) ==
    CASE GetRootfsType(f) = "initrd" ->
            [failed |-> FALSE,
             instr |-> IF rc
                       THEN SetAnnot(in, AnnotInitrd, DefaultRootfsPath)
                       ELSE SetAnnot(in, AnnotInitrd, r.FilePath)]
      [] GetRootfsType(f) = "raw" ->
            [failed |-> FALSE, instr |-> SetAnnot(in, AnnotMountRootfs, "true")]
      [] OTHER ->
            [failed |-> TRUE, instr |-> in]

---------------------------------------------------------------------------
(* The state machine *)

Final == {"done", "error", "panic"}

\* ToPack called on a request
InitToPack ==
    /\ pc = "ToPack"
    /\ h \in Requests
    /\ framework = NoFramework
    /\ kernelEntry = NilEntry
    /\ rootfsEntry = NilEntry
    /\ instr = [Base |-> ZeroState, Copies |-> <<>>, Annots |-> <<>>]
    /\ kernelCopy = FALSE
    /\ rootfsCopy = FALSE
    /\ err = ""
    /\ calls = {}
    /\ q = NoCall
    /\ ret = NoRet

\* the base/copy block entered with two resolved entries
InitEntries ==
    /\ pc = "kernelSwitch"
    /\ h = NoRequest
    /\ \E plat \in Platforms, t \in RootfsTypes :
          /\ framework = SelectFramework(plat, [NoRequest.Rootfs EXCEPT !.Type = t])
          /\ instr = NewInstr(plat, "cmd")
    /\ kernelEntry \in KernelEntries
    /\ rootfsEntry \in RootfsEntries
    /\ kernelCopy = FALSE
    /\ rootfsCopy = FALSE
    /\ err = ""
    /\ calls = {}
    /\ q = NoCall
    /\ ret = NoRet

\* handleRootfs called on a rootfs and a framework built for it
InitHandleRootfs ==
    /\ pc = "handleRootfs"
    /\ h \in RootfsRequests
    /\ framework \in Variants(h.Platform, h.Rootfs)
    /\ kernelEntry = NilEntry
    /\ rootfsEntry = NilEntry
    /\ instr = [Base |-> ZeroState, Copies |-> <<>>, Annots |-> <<>>]
    /\ kernelCopy = FALSE
    /\ rootfsCopy = FALSE
    /\ err = ""
    /\ calls = {}
    /\ q = NoCall
    /\ ret = NoRet

\* one method of a framework called with one argument
InitMethod ==
    /\ pc = "method"
    /\ h = NoRequest
    /\ \E plat \in MethodPlatforms, rfs \in Rootfses :
          framework \in Variants(plat, rfs)
    /\ q \in MethodCalls
    /\ q.fn = "UpdateRootfs" => HasUpdateRootfs(framework)
    /\ kernelEntry = NilEntry
    /\ rootfsEntry = NilEntry
    /\ instr = [Base |-> ZeroState, Copies |-> <<>>, Annots |-> <<>>]
    /\ kernelCopy = FALSE
    /\ rootfsCopy = FALSE
    /\ err = ""
    /\ calls = {}
    /\ ret = NoRet

\* one function of the package called with its arguments
InitCall ==
    /\ pc = "method"
    /\ h = NoRequest
    /\ framework = NoFramework
    /\ q \in PureCalls
    /\ kernelEntry = NilEntry
    /\ rootfsEntry = NilEntry
    /\ instr = [Base |-> ZeroState, Copies |-> <<>>, Annots |-> <<>>]
    /\ kernelCopy = FALSE
    /\ rootfsCopy = FALSE
    /\ err = ""
    /\ calls = {}
    /\ ret = NoRet

Init == InitToPack \/ InitEntries \/ InitHandleRootfs \/ InitMethod \/ InitCall

\* lines 157-179
ToPackBegin ==
    /\ pc = "ToPack"
    /\ instr' = NewInstr(h.Platform, h.Cmd)
    /\ framework' = SelectFramework(h.Platform, h.Rootfs)
    /\ pc' = "resolve"
    /\ UNCHANGED <<h, kernelEntry, rootfsEntry, kernelCopy, rootfsCopy, err>>
    /\ UNCHANGED <<calls, q, ret>>

\* lines 181-189: both entries come from handleKernel on h.Kernel
ToPackResolve ==
    /\ pc = "resolve"
    /\ LET kres == handleKernel(framework, BuildContext, h.Platform.Monitor, h.Kernel)
           rres == handleKernel(framework, BuildContext, h.Platform.Monitor, h.Kernel)
       IN IF kres.panic
          THEN /\ pc' = "panic"
               /\ UNCHANGED <<kernelEntry, rootfsEntry>>
          ELSE IF rres.panic
          THEN /\ pc' = "panic"
               /\ kernelEntry' = kres.entry
               /\ UNCHANGED rootfsEntry
          ELSE /\ pc' = "kernelSwitch"
               /\ kernelEntry' = kres.entry
               /\ rootfsEntry' = rres.entry
    /\ UNCHANGED <<h, framework, instr, kernelCopy, rootfsCopy, err>>
    /\ UNCHANGED <<calls, q, ret>>

\* lines 203-214
KernelSwitch ==
    /\ pc = "kernelSwitch"
    /\ LET res == KernelSwitchCase(kernelEntry, rootfsEntry, instr)
       IN /\ instr' = res.instr
          /\ kernelCopy' = res.kernelCopy
          /\ pc' = IF res.failed THEN "error" ELSE "rootfsSwitch"
          /\ err' = IF res.failed THEN ErrKernelEmpty ELSE err
    /\ UNCHANGED <<h, framework, kernelEntry, rootfsEntry, rootfsCopy>>
    /\ UNCHANGED <<calls, q, ret>>

\* lines 216-226
RootfsSwitch ==
    /\ pc = "rootfsSwitch"
    /\ LET res == RootfsSwitchCase(rootfsEntry, instr)
       IN /\ instr' = res.instr
          /\ rootfsCopy' = res.rootfsCopy
    /\ pc' = "tieBreak"
    /\ UNCHANGED <<h, framework, kernelEntry, rootfsEntry, kernelCopy, err>>
    /\ UNCHANGED <<calls, q, ret>>

\* lines 228-232
TieBreak ==
    /\ pc = "tieBreak"
    /\ LET res == TieBreakCase(kernelEntry, rootfsEntry, instr, kernelCopy, rootfsCopy)
       IN /\ instr' = res.instr
          /\ kernelCopy' = res.kernelCopy
    /\ pc' = "binaryAnnot"
    /\ UNCHANGED <<h, framework, kernelEntry, rootfsEntry, rootfsCopy, err>>
    /\ UNCHANGED <<calls, q, ret>>

\* lines 234-241
BinaryAnnot ==
    /\ pc = "binaryAnnot"
    /\ instr' = BinaryAnnotCase(kernelEntry, instr, kernelCopy)
    /\ pc' = "rootfsAnnot"
    /\ UNCHANGED <<h, framework, kernelEntry, rootfsEntry, kernelCopy, rootfsCopy, err>>
    /\ UNCHANGED <<calls, q, ret>>

\* lines 243-256
RootfsAnnot ==
    /\ pc = "rootfsAnnot"
    /\ LET res == RootfsAnnotCase(framework, rootfsEntry, instr, rootfsCopy)
       IN /\ instr' = res.instr
          /\ pc' = IF res.failed THEN "error" ELSE "done"
          /\ err' = IF res.failed THEN ErrUnexpectedRootfsType ELSE err
    /\ UNCHANGED <<h, framework, kernelEntry, rootfsEntry, kernelCopy, rootfsCopy>>
    /\ UNCHANGED <<calls, q, ret>>

\* package.go:99-146
HandleRootfs ==
    /\ pc = "handleRootfs"
    /\ LET res == handleRootfs(framework, BuildContext, h.Platform.Monitor, h.Rootfs)
       IN /\ pc' = IF res.panic THEN "hrPanic"
                   ELSE IF res.err # "" THEN "hrError"
                   ELSE "hrReturn"
          /\ rootfsEntry' = res.entry
          /\ err' = res.err
          /\ calls' = res.calls
    /\ UNCHANGED <<h, framework, kernelEntry, instr, kernelCopy, rootfsCopy, q, ret>>

MethodFrame == <<h, framework, kernelEntry, rootfsEntry, instr, kernelCopy,
                 rootfsCopy, err, calls, q>>

SupportsRootfsTypeCall ==
    /\ pc = "method"
    /\ q.fn = "SupportsRootfsType"
    /\ ret' = [ok |-> SupportsRootfsType(framework, q.arg), state |-> ZeroState, err |-> ""]
    /\ pc' = "returned"
    /\ UNCHANGED MethodFrame

SupportsMonitorCall ==
    /\ pc = "method"
    /\ q.fn = "SupportsMonitor"
    /\ ret' = [ok |-> SupportsMonitor(framework, q.arg), state |-> ZeroState, err |-> ""]
    /\ pc' = "returned"
    /\ UNCHANGED MethodFrame

SupportsArchCall ==
    /\ pc = "method"
    /\ q.fn = "SupportsArch"
    /\ ret' = [ok |-> SupportsArch(framework, q.arg), state |-> ZeroState, err |-> ""]
    /\ pc' = "returned"
    /\ UNCHANGED MethodFrame

CreateRootfsCall ==
    /\ pc = "method"
    /\ q.fn = "CreateRootfs"
    /\ LET res == CreateRootfs(framework, q.arg)
       IN ret' = [ok |-> res.err = "", state |-> res.state, err |-> res.err]
    /\ pc' = "returned"
    /\ UNCHANGED MethodFrame

UpdateRootfsCall ==
    /\ pc = "method"
    /\ q.fn = "UpdateRootfs"
    /\ LET res == UpdateRootfs(framework, q.arg)
       IN ret' = [ok |-> res.err = "", state |-> res.state, err |-> res.err]
    /\ pc' = "returned"
    /\ UNCHANGED MethodFrame

FilesLLBCall ==
    /\ pc = "method"
    /\ q.fn = "FilesLLB"
    /\ LET res == FilesLLB2(q.arg.fileList, q.arg.fromState, q.arg.toState)
       IN ret' = [ok |-> res.err = "", state |-> res.state, err |-> res.err]
    /\ pc' = "returned"
    /\ UNCHANGED MethodFrame

UnmarshalYAMLCall ==
    /\ pc = "method"
    /\ q.fn = "UnmarshalYAML"
    /\ LET res == UnmarshalYAML(q.arg)
       IN ret' = [ok |-> res.err = "", state |-> res.f, err |-> res.err]
    /\ pc' = "returned"
    /\ UNCHANGED MethodFrame

ValidateRootfsCall ==
    /\ pc = "method"
    /\ q.fn = "ValidateRootfs"
    /\ LET res == ValidateRootfs(q.arg)
       IN ret' = [ok |-> res = "", state |-> ZeroState, err |-> res]
    /\ pc' = "returned"
    /\ UNCHANGED MethodFrame

\* package.go:260-299
PackLLBCall ==
    /\ pc = "method"
    /\ q.fn = "PackLLB"
    /\ \E order \in Orders(q.arg.instr.Annots) :
          LET res == PackLLB(q.arg.instr, order, q.arg.goarch)
          IN ret' = [ok |-> res.err = "", state |-> res.state, err |-> res.err]
    /\ pc' = "returned"
    /\ UNCHANGED MethodFrame

\* parse_file.go:118-192
ParseContainerfileCall ==
    /\ pc = "method"
    /\ q.fn = "ParseContainerfile"
    /\ LET res == ParseContainerfile(q.arg, BuildContext)
       IN ret' = [ok |-> res.err = "", state |-> res.instr, err |-> res.err]
    /\ pc' = "returned"
    /\ UNCHANGED MethodFrame

\* parse_file.go:196-221: a bunnyfile that passes validation goes on into
\* ToPack, whose result ParseFile returns
ParseFileCall ==
    /\ pc = "method"
    /\ q.fn = "ParseFile"
    /\ LET res == ParseFile(q.arg, BuildContext)
       IN /\ calls' = res.calls
          /\ h' = res.hops
          /\ pc' = IF "ToPack" \in res.calls THEN "ToPack" ELSE "returned"
          /\ ret' = IF "ToPack" \in res.calls THEN ret
                    ELSE [ok |-> res.err = "", state |-> res.instr, err |-> res.err]
    /\ UNCHANGED <<framework, kernelEntry, rootfsEntry, instr, kernelCopy,
                   rootfsCopy, err, q>>

Next ==
    \/ ToPackBegin
    \/ ToPackResolve
    \/ KernelSwitch
    \/ RootfsSwitch
    \/ TieBreak
    \/ BinaryAnnot
    \/ RootfsAnnot
    \/ HandleRootfs
    \/ SupportsRootfsTypeCall
    \/ SupportsMonitorCall
    \/ SupportsArchCall
    \/ CreateRootfsCall
    \/ UpdateRootfsCall
    \/ FilesLLBCall
    \/ UnmarshalYAMLCall
    \/ ValidateRootfsCall
    \/ PackLLBCall
    \/ ParseContainerfileCall
    \/ ParseFileCall

Spec == Init /\ [][Next]_vars

---------------------------------------------------------------------------
(* Vocabulary of the properties *)

\* the run is a call of handleRootfs / of one framework method
InHandleRootfs == pc \in {"handleRootfs", "hrPanic", "hrError", "hrReturn"}
InMethod == pc \in {"method", "returned"}

\* the run was driven by a request (ToPack) / by two resolved entries
ByRequest == h # NoRequest /\ ~InHandleRootfs
ByEntries == h = NoRequest /\ ~InMethod

\* the base/copy block has run its three switches
PastTieBreak ==
    \/ pc \in {"binaryAnnot", "rootfsAnnot", "done"}
    \/ pc = "error" /\ err = ErrUnexpectedRootfsType

KernelCopyOf(k) == makeCopy(k, DefaultKernelPath)
RootfsCopyOf(r) == makeCopy(r, DefaultRootfsPath)

CopiesTo(dst) == {i \in 1..Len(instr.Copies) : instr.Copies[i].DstPath = dst}

\* the request declares no rootfs at all
NoRootfsDeclared(rfs) ==
    rfs.From \in {"", "scratch"} /\ rfs.Path = "" /\ rfs.Includes = <<>>

\* the request asks for a rootfs synthesized from its include list
SynthesizedRootfs(rfs) ==
    rfs.From \in {"", "scratch"} /\ rfs.Path = "" /\ rfs.Includes # <<>>

\* the effective rootfs type of a request: declared, or the default of the
\* framework ToPack selects
EffectiveType(req) == GetRootfsType(SelectFramework(req.Platform, req.Rootfs))

---------------------------------------------------------------------------
(* C1 *)

\* C1 (as claimed): the tie-break step appends a kernel copy exactly when
\* no kernel copy and no rootfs copy has been recorded by the two switches
\* and both entries are non-empty; in particular never when the rootfs
\* entry is empty.
C1_TieBreakOnlyWhenBothNonEmpty ==
    [][pc = "tieBreak" =>
        ((instr'.Copies = Append(instr.Copies, KernelCopyOf(kernelEntry)))
           <=> (/\ ~kernelCopy
                /\ ~rootfsCopy
                /\ kernelEntry.SourceRef # ""
                /\ rootfsEntry.SourceRef # ""))]_vars

---------------------------------------------------------------------------
(* C2 *)

\* the case of C2: a remote kernel with a declared path and no rootfs, with
\* a rootfs type the annotation step accepts
C2_Case ==
    \/ /\ ByRequest
       /\ IsRemoteRef(h.Kernel.From)
       /\ NoRootfsDeclared(h.Rootfs)
       /\ h.Rootfs.Type = ""
    \/ /\ ByEntries
       /\ IsRemoteRef(kernelEntry.SourceRef)
       /\ rootfsEntry = EmptyEntry
       /\ GetRootfsType(framework) \in {"initrd", "raw"}

C2_KernelRef == IF ByRequest THEN h.Kernel.From ELSE kernelEntry.SourceRef
C2_KernelPath == IF ByRequest THEN h.Kernel.Path ELSE kernelEntry.FilePath

\* C2 (as claimed): for a remote kernel with declared path P and an empty
\* rootfs, planning ends with a plan of zero copies whose base is the
\* kernel's image state and whose binary annotation is P.
C2_RemoteKernelNoRootfs ==
    (pc \in Final /\ C2_Case) =>
        /\ pc = "done"
        /\ instr.Copies = <<>>
        /\ instr.Base = Image(C2_KernelRef)
        /\ HasAnnot(instr, AnnotBinary)
        /\ instr.Annots[AnnotBinary] = C2_KernelPath

---------------------------------------------------------------------------
(* C3 *)

C3_Case ==
    /\ pc = "rootfsSwitch"
    /\ IsRemoteRef(rootfsEntry.SourceRef)
    /\ rootfsEntry.FilePath # ""

---------------------------------------------------------------------------
(* C4 *)

---------------------------------------------------------------------------
(* C5 *)

\* C5: a plan never holds more than two copies, at most one of them to
\* /.boot/kernel and at most one to /.boot/rootfs.
C5_AtMostTwoCopies ==
    /\ Len(instr.Copies) <= 2
    /\ Cardinality(CopiesTo(DefaultKernelPath)) <= 1
    /\ Cardinality(CopiesTo(DefaultRootfsPath)) <= 1

C5_Witness ==
    /\ pc = "done"
    /\ Len(instr.Copies) = 2
    /\ kernelCopy
    /\ rootfsCopy

---------------------------------------------------------------------------
(* C6 *)

\* C6: with a kernel entry of empty origin the kernel switch fails with
\* "Source of kernel State is empty" whatever the rootfs entry is, and the
\* plan then holds no copy and no base.
C6_EmptyKernelFails ==
    (kernelEntry.SourceRef = "" /\ pc # "kernelSwitch") =>
        /\ pc = "error"
        /\ err = ErrKernelEmpty
        /\ instr.Copies = <<>>
        /\ instr.Base = ZeroState
        /\ ~kernelCopy
        /\ ~rootfsCopy

C6_Witness ==
    /\ pc = "error"
    /\ err = ErrKernelEmpty
    /\ kernelEntry.SourceRef = ""
    /\ rootfsEntry.SourceRef # ""

---------------------------------------------------------------------------
(* C7 *)

\* C7: a kernel entry of local origin is copied to /.boot/kernel as the
\* first copy of the plan, and with an empty rootfs entry the plan is that
\* single copy on the empty image.
C7_LocalKernelCopied ==
    (kernelEntry.SourceRef = "local" /\ pc # "kernelSwitch") =>
        /\ kernelCopy
        /\ Len(instr.Copies) >= 1
        /\ instr.Copies[1] = KernelCopyOf(kernelEntry)
        /\ (PastTieBreak /\ rootfsEntry.SourceRef = "") =>
              /\ instr.Copies = <<KernelCopyOf(kernelEntry)>>
              /\ instr.Base = Scratch

C7_Witness ==
    /\ pc = "done"
    /\ kernelEntry.SourceRef = "local"
    /\ rootfsEntry = EmptyEntry
    /\ instr.Copies = <<KernelCopyOf(kernelEntry)>>
    /\ instr.Base = Scratch

---------------------------------------------------------------------------
(* C8 *)

\* the case of C8: a kernel, and a rootfs to synthesize from includes whose
\* effective type is raw
C8_Case ==
    \/ /\ ByRequest
       /\ h.Kernel.From # ""
       /\ SynthesizedRootfs(h.Rootfs)
       /\ EffectiveType(h) = "raw"
    \/ /\ ByEntries
       /\ kernelEntry.SourceRef # ""
       /\ rootfsEntry = Entry("scratch", Created("raw"), "")
       /\ GetRootfsType(framework) = "raw"

C8_KernelPath == IF ByRequest THEN h.Kernel.Path ELSE kernelEntry.FilePath

\* C8 (as claimed): when the rootfs is synthesized from includes with
\* effective type raw, planning ends with a plan whose base is the
\* synthesized rootfs state, whose only copy brings the kernel to
\* /.boot/kernel, and whose mountRootfs annotation is "true".
C8_RawSynthesizedRootfsIsBase ==
    (pc \in Final /\ C8_Case) =>
        /\ pc = "done"
        /\ instr.Base = Created("raw")
        /\ Len(instr.Copies) = 1
        /\ instr.Copies[1].DstPath = DefaultKernelPath
        /\ instr.Copies[1].SrcPath = C8_KernelPath
        /\ instr.Annots[AnnotMountRootfs] = "true"

---------------------------------------------------------------------------
(* C9 *)

\* the case of C9 on resolved entries: a local kernel and a synthesized
\* initrd (origin scratch, filePath /.boot/rootfs), effective type initrd
C9_Case ==
    /\ ByEntries
    /\ kernelEntry.SourceRef = "local"
    /\ rootfsEntry = Entry("scratch", Created("initrd"), DefaultRootfsPath)
    /\ GetRootfsType(framework) = "initrd"

\* C9 (as claimed): a local kernel with a synthesized initrd gives exactly
\* two copies, the kernel from the build context to /.boot/kernel and the
\* initrd from the framework-created state to /.boot/rootfs, on an empty
\* base, and the initrd annotation is /.boot/rootfs.
C9_LocalKernelSynthesizedInitrd ==
    (pc \in Final /\ C9_Case) =>
        /\ pc = "done"
        /\ instr.Copies = <<KernelCopyOf(kernelEntry), RootfsCopyOf(rootfsEntry)>>
        /\ instr.Copies[1].SrcState = Local(BuildContext)
        /\ instr.Copies[2].SrcState = Created("initrd")
        /\ IsEmptyImage(instr.Base)
        /\ instr.Annots[AnnotInitrd] = DefaultRootfsPath

---------------------------------------------------------------------------
(* C10 *)

\* C10 (amended): the kernel path the plan reports (the binary annotation)
\* is /.boot/kernel if the plan holds a copy to /.boot/kernel and the
\* kernel entry's own filePath otherwise; the rootfs path it reports (the
\* initrd annotation, written for the initrd type) is /.boot/rootfs if the
\* plan holds a copy to /.boot/rootfs and the rootfs entry's own filePath
\* otherwise, which is empty for an empty rootfs entry.  An entry's own
\* filePath may itself be the canonical constant.
C10_PathsFollowCopies ==
    /\ (ByEntries /\ pc \in {"rootfsAnnot", "done"}) =>
          instr.Annots[AnnotBinary] =
              IF CopiesTo(DefaultKernelPath) # {}
              THEN DefaultKernelPath
              ELSE kernelEntry.FilePath
    /\ (ByEntries /\ pc = "done" /\ GetRootfsType(framework) = "initrd") =>
          /\ instr.Annots[AnnotInitrd] =
                IF CopiesTo(DefaultRootfsPath) # {}
                THEN DefaultRootfsPath
                ELSE rootfsEntry.FilePath
          /\ rootfsEntry = EmptyEntry => instr.Annots[AnnotInitrd] = ""

\* C10 (as claimed), for rootfs entries that are not synthesized: each
\* reported path is the canonical constant exactly when the plan holds the
\* corresponding copy.
C10_PathCanonicalIffCopied ==
    (ByEntries /\ rootfsEntry.SourceRef # "scratch") =>
        /\ pc \in {"rootfsAnnot", "done"} =>
              (instr.Annots[AnnotBinary] = DefaultKernelPath
                 <=> CopiesTo(DefaultKernelPath) # {})
        /\ (pc = "done" /\ GetRootfsType(framework) = "initrd") =>
              (instr.Annots[AnnotInitrd] = DefaultRootfsPath
                 <=> CopiesTo(DefaultRootfsPath) # {})

\* a remote kernel kept in place next to a copied local rootfs
C10_Witness ==
    /\ pc = "done"
    /\ IsRemoteRef(kernelEntry.SourceRef)
    /\ kernelEntry.FilePath = "kernel"
    /\ rootfsEntry.SourceRef = "local"
    /\ GetRootfsType(framework) = "initrd"
    /\ instr.Annots[AnnotBinary] = kernelEntry.FilePath
    /\ instr.Annots[AnnotInitrd] = DefaultRootfsPath

---------------------------------------------------------------------------
(* C11 *)

C11_KernelCopy ==
    [SrcState |-> kernelEntry.SourceState, SrcPath |-> kernelEntry.FilePath,
     DstPath |-> DefaultKernelPath]
C11_RootfsCopy ==
    [SrcState |-> rootfsEntry.SourceState, SrcPath |-> rootfsEntry.FilePath,
     DstPath |-> DefaultRootfsPath]

\* C11: at every point of planning the copy list is a subsequence of
\* <<kernel copy, rootfs copy>>: a kernel copy takes the kernel entry's
\* state and filePath to /.boot/kernel, a rootfs copy takes the rootfs
\* entry's state and filePath to /.boot/rootfs, and the kernel copy comes
\* first when both are there.
C11_CopiesAreKernelThenRootfs ==
    instr.Copies \in {<<>>, <<C11_KernelCopy>>, <<C11_RootfsCopy>>,
                      <<C11_KernelCopy, C11_RootfsCopy>>}

\* a finished plan with both copies, from two different local paths
C11_Witness ==
    /\ pc = "done"
    /\ kernelEntry.FilePath = "kernel"
    /\ rootfsEntry.FilePath = "rootfs"
    /\ instr.Copies = <<C11_KernelCopy, C11_RootfsCopy>>

---------------------------------------------------------------------------
(* C12 *)

C12_Type == GetRootfsType(framework)

\* the case of C12: planning on a kernel and a present rootfs entry ended,
\* with an effective rootfs type of initrd, block or raw
C12_Case ==
    /\ ByEntries
    /\ pc \in Final
    /\ kernelEntry.SourceRef # ""
    /\ rootfsEntry # EmptyEntry
    /\ C12_Type \in {"initrd", "block", "raw"}

C12_InitrdGroup == HasAnnot(instr, AnnotInitrd)
C12_BlockGroup == HasAnnot(instr, AnnotBlock) /\ HasAnnot(instr, AnnotBlkMntPoint)
C12_BlockKeys == HasAnnot(instr, AnnotBlock) \/ HasAnnot(instr, AnnotBlkMntPoint)
C12_RawGroup ==
    HasAnnot(instr, AnnotMountRootfs) /\ instr.Annots[AnnotMountRootfs] = "true"

\* C12 (as claimed): with a rootfs present and an effective type of
\* initrd, block or raw there is a plan, and its annotations hold the group
\* of that type (initrd path; block path and mount point; mountRootfs =
\* "true") and neither of the other two.
C12_ExactlyOneAnnotationGroup ==
    C12_Case =>
        /\ pc = "done"
        /\ C12_InitrdGroup <=> C12_Type = "initrd"
        /\ C12_BlockGroup <=> C12_Type = "block"
        /\ C12_BlockKeys <=> C12_Type = "block"
        /\ C12_RawGroup <=> C12_Type = "raw"

---------------------------------------------------------------------------
(* C13 *)

\* the case of C13: no rootfs at all, for a framework left to its default
\* rootfs type
C13_Case ==
    \/ /\ ByRequest
       /\ h.Kernel.From # ""
       /\ h.Rootfs.From = "" /\ h.Rootfs.Path = "" /\ h.Rootfs.Includes = <<>>
       /\ h.Rootfs.Type = ""
    \/ /\ ByEntries
       /\ kernelEntry.SourceRef # ""
       /\ rootfsEntry = EmptyEntry
       /\ GetRootfsType(framework) \in {"initrd", "raw"}

\* C13 (as claimed): when no rootfs is declared, planning ends with a plan
\* whose annotations hold no initrd key and no block key and whose
\* mountRootfs is "false", whatever the framework's default type is.
C13_NoRootfsNoRootfsAnnotations ==
    (pc \in Final /\ C13_Case) =>
        /\ pc = "done"
        /\ ~HasAnnot(instr, AnnotInitrd)
        /\ ~HasAnnot(instr, AnnotBlock)
        /\ ~HasAnnot(instr, AnnotBlkMntPoint)
        /\ instr.Annots[AnnotMountRootfs] = "false"

---------------------------------------------------------------------------
(* C14 *)

\* C14: when the annotation step is reached with an effective rootfs type
\* that is non-empty and none of initrd, block, raw, it fails with
\* "Unexpected RootfsType value" and planning ends without a plan.
C14_UnknownTypeFails ==
    [][(/\ pc = "rootfsAnnot"
        /\ GetRootfsType(framework) # ""
        /\ GetRootfsType(framework) \notin {"initrd", "block", "raw"}) =>
            /\ pc' = "error"
            /\ err' = ErrUnexpectedRootfsType]_vars

C14_Witness ==
    /\ pc = "error"
    /\ err = ErrUnexpectedRootfsType
    /\ GetRootfsType(framework) = "foo"
    /\ HasAnnot(instr, AnnotBinary)

---------------------------------------------------------------------------
(* C15 *)

\* C15: when handleRootfs is called with a non-empty rootfs type that the
\* framework's SupportsRootfsType rejects, it returns no entry and the
\* error "Cannot build <type> rootfs for <framework name>", without having
\* created or fetched any state.
C15_UnsupportedTypeFailsFirst ==
    [][(/\ pc = "handleRootfs"
        /\ h.Rootfs.Type # ""
        /\ ~SupportsRootfsType(framework, h.Rootfs.Type)) =>
            /\ pc' = "hrError"
            /\ rootfsEntry' = NilEntry
            /\ calls' = {}
            /\ err' = "Cannot build " \o h.Rootfs.Type \o " rootfs for "
                         \o Name(framework)]_vars

\* the Generic variant rejecting type foo of a remote rootfs
C15_Witness ==
    /\ pc = "hrError"
    /\ Name(framework) = genericName
    /\ h.Rootfs.Type = "foo"
    /\ IsRemoteRef(h.Rootfs.From)
    /\ err = "Cannot build foo rootfs for generic"
    /\ rootfsEntry = NilEntry

---------------------------------------------------------------------------
(* C16 *)

C16_Case == pc = "returned" /\ Name(framework) = genericName

\* C16 (as claimed): the Generic variant's SupportsRootfsType,
\* SupportsMonitor and SupportsArch return true for every input.
C16_GenericAcceptsAnything ==
    (C16_Case /\ q.fn \in {"SupportsRootfsType", "SupportsMonitor", "SupportsArch"})
        => ret.ok

\* C16 (amended): the Generic variant's SupportsMonitor and SupportsArch
\* return true for every input; its SupportsRootfsType returns true
\* exactly for initrd, block and raw.
C16_GenericAcceptsKnownTypes ==
    /\ (C16_Case /\ q.fn \in {"SupportsMonitor", "SupportsArch"}) => ret.ok
    /\ (C16_Case /\ q.fn = "SupportsRootfsType") =>
          (ret.ok <=> q.arg \in {"initrd", "block", "raw"})

C16_Witness ==
    /\ C16_Case
    /\ q = [fn |-> "SupportsRootfsType", arg |-> "foo"]
    /\ ~ret.ok

---------------------------------------------------------------------------
(* C17 *)

C17_Registered == {genericName, unikraftName, rumprunName, mirageName}

\* C17 (as claimed): the framework ToPack selects for a request is the
\* registered variant (generic, unikraft, rumprun, mirage) named by
\* platforms.framework, and the Generic variant when the name is none of
\* them.
C17_VariantMatchesName ==
    (ByRequest /\ pc # "ToPack") =>
        Name(framework) = IF h.Platform.Framework \in C17_Registered
                          THEN h.Platform.Framework
                          ELSE genericName

---------------------------------------------------------------------------
(* C18 *)

\* the case of C18: CreateRootfs has returned for a framework that has
\* files to put in the rootfs
C18_Case ==
    /\ pc = "returned"
    /\ q.fn = "CreateRootfs"
    /\ framework.Rootfs.Includes # <<>>

\* C18 (as claimed): CreateRootfs returns an error, or a rootfs node of the
\* framework's effective rootfs type; never a success with an empty node
\* or with a node of another kind.
C18_CreateRootfsTypedOrError ==
    C18_Case =>
        \/ ret.err # ""
        \/ /\ ~IsEmptyImage(ret.state)
           /\ ret.state = Created(GetRootfsType(framework))

---------------------------------------------------------------------------
(* C19 *)

C19_Returned == pc \in {"hrPanic", "hrError", "hrReturn"}

\* the case of C19: handleRootfs on a rootfs from "" or "scratch" whose
\* type the framework supports and can create
C19_Case ==
    /\ C19_Returned
    /\ h.Rootfs.From \in {"", "scratch"}
    /\ h.Rootfs.Type = "" \/ SupportsRootfsType(framework, h.Rootfs.Type)
    /\ h.Rootfs.Includes # <<>> => CreateRootfs(framework, BuildContext).err = ""

\* C19 (as claimed): for a rootfs from "" or "scratch", handleRootfs
\* returns the empty entry when the include list is empty, and otherwise
\* the entry of origin "scratch" whose state is the framework's
\* CreateRootfs result and whose filePath is /.boot/rootfs, or empty when
\* the effective type is raw.
C19_ScratchRootfsEntry ==
    C19_Case =>
        /\ pc = "hrReturn"
        /\ rootfsEntry =
              IF h.Rootfs.Includes = <<>>
              THEN EmptyEntry
              ELSE Entry("scratch",
                         CreateRootfs(framework, BuildContext).state,
                         IF GetRootfsType(framework) = "raw"
                         THEN ""
                         ELSE DefaultRootfsPath)

---------------------------------------------------------------------------
(* C20 *)

\* the case of C20: handleRootfs on a remote rootfs with includes, of a
\* type the framework supports
C20_Case ==
    /\ C19_Returned
    /\ IsRemoteRef(h.Rootfs.From)
    /\ h.Rootfs.Includes # <<>>
    /\ h.Rootfs.Type = "" \/ SupportsRootfsType(framework, h.Rootfs.Type)
    /\ HasUpdateRootfs(framework)

\* C20 (as claimed): for a remote rootfs with a non-empty include list
\* handleRootfs calls the framework's UpdateRootfs and either returns the
\* entry whose state is that result or fails with its error; it never
\* returns the bare remote image.
C20_RemoteIncludesAreAppended ==
    C20_Case =>
        /\ "UpdateRootfs" \in calls
        /\ IF UpdateRootfs(framework, BuildContext).err # ""
           THEN pc = "hrError"
           ELSE /\ pc = "hrReturn"
                /\ rootfsEntry.SourceState = UpdateRootfs(framework, BuildContext).state
                /\ rootfsEntry.SourceState # Image(h.Rootfs.From)

---------------------------------------------------------------------------
(* C21 *)

\* an entry the copy chain takes: at most one ":" and something before it
C21_WellFormed(entry) ==
    /\ Cardinality({i \in 1..Len(entry) : entry[i] = ":"}) <= 1
    /\ Len(entry) >= 1
    /\ entry[1] # ":"

C21_Source(entry) ==
    LET colons == {i \in 1..Len(entry) : entry[i] = ":"} IN
    IF colons = {} THEN entry
    ELSE SubSeq(entry, 1, (CHOOSE i \in colons : TRUE) - 1)

\* the node k copies below the top of a graph
RECURSIVE C21_Below(_, _)
C21_Below(node, k) ==
    IF k = 0 THEN node
    ELSE IF node.op = "copy" THEN C21_Below(node.input, k - 1)
    ELSE [op |-> "none", arg |-> ""]

C21_Case ==
    /\ pc = "returned"
    /\ q.fn = "FilesLLB"
    /\ Len(q.arg.fileList) >= 1
    /\ \A i \in 1..Len(q.arg.fileList) : C21_WellFormed(q.arg.fileList[i])

\* C21: for a list of n >= 1 well-formed entries FilesLLB succeeds with a
\* chain of exactly n copy nodes on the destination base: counted from the
\* base, the i-th node copies the source of the i-th entry from the source
\* state and has the (i-1)-th node, or the base for i = 1, as its input.
C21_CopyChain ==
    C21_Case =>
        LET n == Len(q.arg.fileList) IN
        /\ ret.err = ""
        /\ C21_Below(ret.state, n) = q.arg.toState
        /\ \A i \in 1..n :
              LET node == C21_Below(ret.state, n - i) IN
              /\ node.op = "copy"
              /\ node.arg.SrcState = q.arg.fromState
              /\ node.arg.SrcPath = C21_Source(q.arg.fileList[i])
              /\ node.input = C21_Below(ret.state, n - i + 1)

\* two different files copied one after the other onto an image
C21_Witness ==
    /\ C21_Case
    /\ q.arg.fileList = <<(<<"a", ":", "b">>), (<<"b">>)>>
    /\ q.arg.toState \in {Image(r) : r \in Refs}
    /\ ret.state.op = "copy"
    /\ ret.state.input.op = "copy"
    /\ ret.state.input.input = q.arg.toState

---------------------------------------------------------------------------
(* C22 *)

C22_Colons(entry) == {i \in 1..Len(entry) : entry[i] = ":"}

\* entries the claim has rejected: nothing before the first ":", or more
\* than one ":"
C22_Rejected(entry) ==
    \/ Cardinality(C22_Colons(entry)) > 1
    \/ Len(entry) >= 1 /\ entry[1] = ":"

\* "a" or "a:b" with both sides non-empty
C22_Plain(entry) == C22_Colons(entry) = {} /\ Len(entry) >= 1
C22_Pair(entry) ==
    /\ Cardinality(C22_Colons(entry)) = 1
    /\ entry[1] # ":"
    /\ entry[Len(entry)] # ":"

C22_Src(entry) ==
    IF C22_Plain(entry) THEN entry
    ELSE SubSeq(entry, 1, (CHOOSE i \in C22_Colons(entry) : TRUE) - 1)
C22_Dst(entry) ==
    IF C22_Plain(entry) THEN entry
    ELSE SubSeq(entry, (CHOOSE i \in C22_Colons(entry) : TRUE) + 1, Len(entry))

\* the single entry a returned call was about, and what it was resolved to
C22_Case ==
    /\ pc = "returned"
    /\ \/ q.fn = "FilesLLB" /\ Len(q.arg.fileList) = 1
       \/ q.fn = "UnmarshalYAML" /\ q.arg.Kind = "scalar"
       \/ /\ q.fn = "ValidateRootfs"
          /\ q.arg.From = "scratch" /\ q.arg.Path = "" /\ q.arg.Type = ""
          /\ Len(q.arg.Includes) = 1

C22_Entry ==
    CASE q.fn = "FilesLLB" -> q.arg.fileList[1]
      [] q.fn = "UnmarshalYAML" -> q.arg.Value
      [] OTHER -> q.arg.Includes[1]

C22_Resolved ==
    CASE q.fn = "FilesLLB" ->
            <<ret.state.arg.SrcPath, ret.state.arg.DstPath>>
      [] q.fn = "UnmarshalYAML" ->
            <<ret.state.Src, ret.state.Dst>>
      [] OTHER ->
            <<C22_Src(C22_Entry), C22_Dst(C22_Entry)>>

\* C22 (as claimed): validation, bunnyfile decoding and the copy chain all
\* take "a:b" as source a and destination b and "a" as source a and
\* destination a, and all reject an entry with nothing before the ":" or
\* with more than one ":".
C22_EntriesParseAlike ==
    C22_Case =>
        /\ C22_Rejected(C22_Entry) => ret.err # ""
        /\ (C22_Plain(C22_Entry) \/ C22_Pair(C22_Entry)) =>
              /\ ret.err = ""
              /\ C22_Resolved = <<C22_Src(C22_Entry), C22_Dst(C22_Entry)>>

---------------------------------------------------------------------------
(* C23 *)

C23_Returned == pc = "returned" /\ q.fn = "PackLLB"

\* C23: whatever order the annotation map is ranged over in, PackLLB on
\* the same plan gives the same result: the graph it has returned (nodes,
\* edges and urunc.json content) is the graph every other order gives.
C23_PackLLBDeterministic ==
    C23_Returned =>
        \A order \in Orders(q.arg.instr.Annots) :
            LET res == PackLLB(q.arg.instr, order, q.arg.goarch)
            IN res.state = ret.state /\ res.err = ret.err

\* a graph for a plan with three annotations, so six orders, and a copy
C23_Witness ==
    /\ C23_Returned
    /\ ret.err = ""
    /\ DOMAIN q.arg.instr.Annots = PlanAnnotKeys
    /\ Len(q.arg.instr.Copies) = 1
    /\ Len(ret.state.input.arg.data) = 3

---------------------------------------------------------------------------
(* C24 *)

\* C24: in every graph PackLLB produces the last operation writes
\* /urunc.json; below it the plan's copies lie in list order, the i-th on
\* the (i-1)-th and the first on the plan's base.
C24_CopiesThenMetadata ==
    (C23_Returned /\ ret.err = "") =>
        LET top == ret.state.input
            n == Len(q.arg.instr.Copies)
        IN /\ top.op = "mkfile"
           /\ top.arg.path = "/urunc.json"
           /\ C21_Below(top.input, n) = q.arg.instr.Base
           /\ \A i \in 1..n :
                 LET node == C21_Below(top.input, n - i) IN
                 /\ node.op = "copy"
                 /\ node.arg = q.arg.instr.Copies[i]
                 /\ node.input = C21_Below(top.input, n - i + 1)

\* kernel then rootfs copied onto an image, urunc.json on top
C24_Witness ==
    /\ C23_Returned
    /\ ret.err = ""
    /\ Len(q.arg.instr.Copies) = 2
    /\ q.arg.instr.Copies[1] # q.arg.instr.Copies[2]
    /\ q.arg.instr.Base.op = "image"
    /\ ret.state.input.op = "mkfile"
    /\ ret.state.input.input.arg = q.arg.instr.Copies[2]

---------------------------------------------------------------------------
(* C25 *)

C25_Returned == pc = "returned" /\ q.fn = "ValidateRootfs"

\* C25 (as claimed): ValidateRootfs returns an error for every rootfs
\* whose from is "" or "scratch" and whose path is non-empty.
C25_ScratchForbidsPath ==
    (C25_Returned /\ q.arg.From \in {"", "scratch"} /\ q.arg.Path # "")
        => ret.err # ""

---------------------------------------------------------------------------
(* C26 *)

C26_WellFormed(includes) ==
    \A i \in 1..Len(includes) :
        C22_Plain(includes[i]) \/ C22_Pair(includes[i])

\* C26 (as claimed): ValidateRootfs accepts a non-empty list of well-formed
\* includes when from is "" or "scratch" and no path is set, and returns an
\* error for a non-empty list with any other from.
C26_IncludesNeedScratch ==
    (C25_Returned /\ Len(q.arg.Includes) > 0) =>
        /\ (/\ q.arg.From \in {"", "scratch"}
            /\ q.arg.Path = ""
            /\ C26_WellFormed(q.arg.Includes)) => ret.err = ""
        /\ q.arg.From \notin {"", "scratch"} => ret.err # ""

---------------------------------------------------------------------------
(* C27 *)

\* the instructions ParseContainerfile has a case for
C27_Supported == {"from", "copy", "label", "cmd", "entrypoint", "env"}

C27_Returned == pc = "returned" /\ q.fn = "ParseContainerfile"

\* the positions of a file that hold an instruction outside the six, and
\* those that hold a FROM after an earlier FROM
C27_Unsupported(file) == {i \in DOMAIN file : file[i].Value \notin C27_Supported}
C27_LaterFroms(file) ==
    {i \in DOMAIN file :
        /\ file[i].Value = "from"
        /\ \E j \in 1..(i - 1) : file[j].Value = "from"}
C27_Offending(file) == C27_Unsupported(file) \cup C27_LaterFroms(file)
C27_First(file) ==
    CHOOSE i \in C27_Offending(file) : \A j \in C27_Offending(file) : i <= j

\* every instruction up to position i has the arguments it needs
C27_WellFormedUpTo(file, i) == \A j \in 1..i : Len(file[j].Args) > 0

C27_Case == C27_Returned /\ C27_Offending(q.arg) # {}

---------------------------------------------------------------------------
(* C28 *)

C28_Returned == q.fn = "ParseFile" /\ pc # "method"

\* a line that is not empty and does not start with "#"
C28_Meaningful(line) == Len(TrimSpace(line)) > 0 /\ line[1] # "#"

\* the first such line of the file begins with FROM
C28_FirstLineIsFROM(lines) ==
    \E i \in DOMAIN lines :
        /\ C28_Meaningful(lines[i])
        /\ \A j \in 1..(i - 1) : ~C28_Meaningful(lines[j])
        /\ lines[i][1] = "FROM"

\* C28 (as claimed): ParseFile hands the file to ParseContainerfile exactly
\* when its first line that is not empty and does not start with "#" begins
\* with FROM, and to ParseBunnyfile in every other case.
C28_FormatByFirstLine ==
    C28_Returned =>
        /\ "ParseContainerfile" \in calls <=> C28_FirstLineIsFROM(q.arg.lines)
        /\ "ParseBunnyfile" \in calls <=> ~C28_FirstLineIsFROM(q.arg.lines)

---------------------------------------------------------------------------
(* C29 *)

\* CreateRootfs has returned on a variant whose declared rootfs type its
\* own SupportsRootfsType accepts
C29_Case ==
    /\ pc = "returned"
    /\ q.fn = "CreateRootfs"
    /\ framework.Rootfs.Type # ""
    /\ SupportsRootfsType(framework, framework.Rootfs.Type)

\* C29 (as claimed): for every variant, CreateRootfs on a declared type
\* that the variant's SupportsRootfsType accepts does not fail with the
\* unsupported-type error.
C29_SupportedTypesAreBuilt ==
    C29_Case => ret.err # ErrUnsupportedRootfsType

---------------------------------------------------------------------------
(* C30 *)

\* ParseBunnyfile has accepted the file and ParseFile has called ToPack
C30_Validated == q.fn = "ParseFile" /\ "ToPack" \in calls

\* C30: a request that ParseBunnyfile has accepted enters ToPack with a
\* kernel whose from and path are not empty, and ToPack does not fail on it
\* with "Source of kernel State is empty"; the kernel switch of ToPack
\* gives that error for no kernel entry with a reference.
C30_ValidatedKernelNotEmpty ==
    /\ C30_Validated =>
          /\ h.Kernel.From # ""
          /\ h.Kernel.Path # ""
          /\ err # ErrKernelEmpty
    /\ ByEntries /\ kernelEntry.SourceRef \notin {"", "<nil>"} => err # ErrKernelEmpty

\* ToPack has run to its end on an accepted request with a remote kernel
C30_Witness ==
    /\ C30_Validated
    /\ pc \in Final
    /\ h.Kernel.From \in Refs
    /\ h.Kernel.Path = "kernel"

====
